---- MODULE Spec2Model ----
(***************************************************************************)
(* Model of github.com/nussjustin/httpcache: the Cache-Control tokenizer   *)
(* and directive parser (internal/cachecontrol), the request/response      *)
(* directive classifiers and the RFC 9111 storage decision Config.CanStore *)
(* (package httpcache).                                                    *)
(*                                                                         *)
(* Strings are sequences of bytes; a byte is written as a one-character    *)
(* string (DEL, which has no printable form, as "DEL") and Byte gives its  *)
(* numeric value.  Offsets are 0-based as in the Go source.                *)
(***************************************************************************)
EXTENDS Integers, Sequences, FiniteSets, TLC

\* ------------------------------------------------------------------------
\* Bytes and strings
\* ------------------------------------------------------------------------

\* the ASCII digits and letters, in the order of their byte values
Digits == <<"0", "1", "2", "3", "4", "5", "6", "7", "8", "9">>

Upper ==
  <<"A", "B", "C", "D", "E", "F", "G", "H", "I", "J", "K", "L", "M",
    "N", "O", "P", "Q", "R", "S", "T", "U", "V", "W", "X", "Y", "Z">>

Lower ==
  <<"a", "b", "c", "d", "e", "f", "g", "h", "i", "j", "k", "l", "m",
    "n", "o", "p", "q", "r", "s", "t", "u", "v", "w", "x", "y", "z">>

Range(f) == {f[k] : k \in DOMAIN f}

\* the other bytes of the model, each with its value
Punctuation ==
  {<<"\t", 9>>, <<" ", 32>>, <<"\"", 34>>, <<"+", 43>>, <<",", 44>>, <<"-", 45>>,
   <<".", 46>>, <<"=", 61>>, <<"\\", 92>>, <<"DEL", 127>>}

Bytes == Range(Digits) \cup Range(Upper) \cup Range(Lower) \cup {p[1] : p \in Punctuation}

\* numeric value of a byte
ByteValue ==
  [c \in Bytes |->
     IF c \in Range(Digits) THEN 47 + (CHOOSE k \in DOMAIN Digits : Digits[k] = c)
     ELSE IF c \in Range(Upper) THEN 64 + (CHOOSE k \in DOMAIN Upper : Upper[k] = c)
     ELSE IF c \in Range(Lower) THEN 96 + (CHOOSE k \in DOMAIN Lower : Lower[k] = c)
     ELSE (CHOOSE p \in Punctuation : p[1] = c)[2]]

Byte(c) == ByteValue[c]

\* s[i], 0-based
At(s, i) == s[i + 1]

\* s[a:b], 0-based, b exclusive
Slice(s, a, b) == SubSeq(s, a + 1, b)

\* all strings over alphabet A of length at most n
StringsUpTo(A, n) == UNION {[1..k -> A] : k \in 0..n}

\* ------------------------------------------------------------------------
\* cachecontrol.Tokenize
\* ------------------------------------------------------------------------

TokenTypeComma == "comma"
TokenTypeEquals == "equals"
TokenTypeSpace == "space"
TokenTypeText == "text"

Token(type, start, end, text) ==
  [Type |-> type, Start |-> start, End |-> end, Text |-> text]

isControlCharacterOrSpace(c) == Byte(c) <= 32 \/ Byte(c) = 127

\* the pending unquoted text run is yielded before a delimiter
\* (st is the scan state [i, textStart, out]; textStart = -1: no run open)
FlushText(s, st) ==
  IF st.textStart # -1 /\ st.textStart < st.i
    THEN [st EXCEPT !.out = Append(@, Token(TokenTypeText, st.textStart, st.i,
                                            Slice(s, st.textStart, st.i))),
                    !.textStart = -1]
    ELSE st

\* end of the run of control characters and spaces that starts before j
RECURSIVE SpaceRunEnd(_, _)
SpaceRunEnd(s, j) ==
  IF j < Len(s) /\ isControlCharacterOrSpace(At(s, j))
    THEN SpaceRunEnd(s, j + 1)
    ELSE j

\* StepSpace resuming one byte too far after the run (i = j in place of j - 1)
StepSpaceSkipsByte(s, st) ==
  LET f == FlushText(s, st)
      j == SpaceRunEnd(s, st.i + 1)
  IN [f EXCEPT !.out = Append(@, Token(TokenTypeSpace, st.i, j, Slice(s, st.i, j))),
               !.i = j + 1]

\* case isControlCharacterOrSpace(c)
StepSpace(s, st) ==
  LET f == FlushText(s, st)
      j == SpaceRunEnd(s, st.i + 1)
  IN [f EXCEPT !.out = Append(@, Token(TokenTypeSpace, st.i, j, Slice(s, st.i, j))),
               !.i = j]

\* case c == ','
StepComma(s, st) ==
  LET f == FlushText(s, st)
  IN [f EXCEPT !.out = Append(@, Token(TokenTypeComma, st.i, st.i + 1, <<",">>)),
               !.i = st.i + 1]

\* StepEquals taking '=' as a byte of a text run
StepEqualsJoinsText(s, st) ==
  IF st.textStart = -1
    THEN [st EXCEPT !.textStart = st.i, !.i = st.i + 1]
    ELSE [st EXCEPT !.i = st.i + 1]

\* case c == '='
StepEquals(s, st) ==
  LET f == FlushText(s, st)
  IN [f EXCEPT !.out = Append(@, Token(TokenTypeEquals, st.i, st.i + 1, <<"=">>)),
               !.i = st.i + 1]

\* QuoteScan that takes the raw slice between the quotes as the token text
RECURSIVE QuoteScanRawText(_, _, _, _, _, _)
QuoteScanRawText(s, i, j, escaping, unescaped, unescapedTo) ==
  IF j >= Len(s)
    THEN [found |-> FALSE, j |-> j, text |-> <<>>]
    ELSE IF escaping
      THEN QuoteScanRawText(s, i, j + 1, FALSE, unescaped, unescapedTo)
      ELSE IF At(s, j) = "\\"
        THEN QuoteScanRawText(s, i, j + 1, TRUE, unescaped, unescapedTo)
        ELSE IF At(s, j) = "\""
          THEN [found |-> TRUE, j |-> j, text |-> Slice(s, i + 1, j)]
          ELSE QuoteScanRawText(s, i, j + 1, FALSE, unescaped, unescapedTo)

\* the inner loop of the quoted-string case, from offset j; i is the offset of
\* the opening quote.  Gives the closing quote's offset and the token text, or
\* found = FALSE when the input ends first.
RECURSIVE QuoteScan(_, _, _, _, _, _)
QuoteScan(s, i, j, escaping, unescaped, unescapedTo) ==
  IF j >= Len(s)
    THEN [found |-> FALSE, j |-> j, text |-> <<>>]
    ELSE IF escaping
      THEN QuoteScan(s, i, j + 1, FALSE, Append(unescaped, At(s, j)), j + 1)
      ELSE IF At(s, j) = "\\"
        THEN IF unescapedTo < j
               THEN QuoteScan(s, i, j + 1, TRUE,
                              unescaped \o Slice(s, unescapedTo, j), j + 1)
               ELSE QuoteScan(s, i, j + 1, TRUE, unescaped, unescapedTo)
        ELSE IF At(s, j) = "\""
          THEN [found |-> TRUE, j |-> j,
                text |-> IF Len(unescaped) > 0
                           THEN unescaped \o Slice(s, unescapedTo, j)
                           ELSE Slice(s, i + 1, j)]
          ELSE QuoteScan(s, i, j + 1, FALSE, unescaped, unescapedTo)

\* the slice expressions s[lo:hi] of the inner loop of the quoted-string case
\* all have 0 <= lo <= hi <= len(s), and every s[j] has j < len(s)
RECURSIVE QuoteScanInRange(_, _, _, _, _, _)
QuoteScanInRange(s, i, j, escaping, unescaped, unescapedTo) ==
  LET InRange(lo, hi) == 0 <= lo /\ lo <= hi /\ hi <= Len(s)
  IN IF j >= Len(s) THEN TRUE
     ELSE IF escaping
       THEN QuoteScanInRange(s, i, j + 1, FALSE, Append(unescaped, At(s, j)), j + 1)
       ELSE IF At(s, j) = "\\"
         THEN IF unescapedTo < j
                THEN InRange(unescapedTo, j)
                       /\ QuoteScanInRange(s, i, j + 1, TRUE,
                                           unescaped \o Slice(s, unescapedTo, j), j + 1)
                ELSE QuoteScanInRange(s, i, j + 1, TRUE, unescaped, unescapedTo)
         ELSE IF At(s, j) = "\""
           THEN IF Len(unescaped) > 0 THEN InRange(unescapedTo, j)
                ELSE InRange(i + 1, j)
           ELSE QuoteScanInRange(s, i, j + 1, FALSE, unescaped, unescapedTo)

\* StepQuote that, finding no closing quote, leaves the scan on the quote
StepQuoteStaysOnQuote(s, st) ==
  LET q == QuoteScan(s, st.i, st.i + 1, FALSE, <<>>, st.i + 1)
  IN IF q.found
       THEN [st EXCEPT !.out = Append(@, Token(TokenTypeText, st.i, q.j + 1, q.text)),
                       !.i = q.j + 1]
       ELSE st

\* StepQuote that, finding no closing quote, yields the rest of the input as
\* one Text token
StepQuoteEatsRest(s, st) ==
  LET q == QuoteScan(s, st.i, st.i + 1, FALSE, <<>>, st.i + 1)
  IN IF q.found
       THEN [st EXCEPT !.out = Append(@, Token(TokenTypeText, st.i, q.j + 1, q.text)),
                       !.i = q.j + 1]
       ELSE [st EXCEPT !.out = Append(@, Token(TokenTypeText, st.i, Len(s),
                                               Slice(s, st.i, Len(s)))),
                       !.i = Len(s)]

\* case textStart == -1 && c == '"', with its fallthrough into textStart = i
StepQuote(s, st) ==
  LET q == QuoteScan(s, st.i, st.i + 1, FALSE, <<>>, st.i + 1)
  IN IF q.found
       THEN [st EXCEPT !.out = Append(@, Token(TokenTypeText, st.i, q.j + 1, q.text)),
                       !.i = q.j + 1]
       ELSE [st EXCEPT !.textStart = st.i, !.i = st.i + 1]

\* case textStart == -1, and the bytes no case matches (a text run is open)
StepText(s, st) ==
  IF st.textStart = -1
    THEN [st EXCEPT !.textStart = st.i, !.i = st.i + 1]
    ELSE [st EXCEPT !.i = st.i + 1]

\* which case of the switch the byte at st.i takes
TokCase(s, st) ==
  LET c == At(s, st.i)
  IN IF isControlCharacterOrSpace(c) THEN "space"
     ELSE IF c = "," THEN "comma"
     ELSE IF c = "=" THEN "equals"
     ELSE IF st.textStart = -1 /\ c = "\"" THEN "quote"
     ELSE "text"

\* one iteration of the loop over the input
TokStep(s, st) ==
  LET k == TokCase(s, st)
  IN IF k = "space" THEN StepSpace(s, st)
     ELSE IF k = "comma" THEN StepComma(s, st)
     ELSE IF k = "equals" THEN StepEquals(s, st)
     ELSE IF k = "quote" THEN StepQuote(s, st)
     ELSE StepText(s, st)

\* TokFinish yielding the zero Token when no text run is open
TokFinishAlwaysYields(s, st) ==
  IF st.textStart # -1
    THEN [st EXCEPT !.out = Append(@, Token(TokenTypeText, st.textStart, Len(s),
                                            Slice(s, st.textStart, Len(s))))]
    ELSE [st EXCEPT !.out = Append(@, Token("invalid", 0, 0, <<>>))]

\* after the loop: the text run still open is yielded
TokFinish(s, st) ==
  IF st.textStart # -1
    THEN [st EXCEPT !.out = Append(@, Token(TokenTypeText, st.textStart, Len(s),
                                            Slice(s, st.textStart, Len(s))))]
    ELSE st

TokStart == [i |-> 0, textStart |-> -1, out |-> <<>>]

RECURSIVE TokRun(_, _)
TokRun(s, st) ==
  IF st.i < Len(s) THEN TokRun(s, TokStep(s, st)) ELSE TokFinish(s, st).out

\* the sequence of tokens Tokenize(s) yields to a consumer that never stops
Tokenize(s) == TokRun(s, TokStart)

\* ------------------------------------------------------------------------
\* cachecontrol.Parse
\* ------------------------------------------------------------------------

Directive(name, value, hasValue) ==
  [Name |-> name, Value |-> value, HasValue |-> hasValue]

\* the zero Token, lastToken before the first token is read
ZeroToken == [Type |-> "invalid", Start |-> 0, End |-> 0, Text |-> <<>>]

\* the state of Parse before the first token
\* (state: "stateName" or "stateValue"; out: the directives yielded so far)
ParseStart ==
  [state |-> "stateName", name |-> <<>>, value |-> <<>>,
   lastToken |-> ZeroToken, out |-> <<>>]

\* ParseInName with the comma yielding the pending name even when it is empty
ParseInNameYieldsEmpty(p, token) ==
  IF token.Type = TokenTypeComma
    THEN [p EXCEPT !.out = Append(@, Directive(p.name, <<>>, FALSE)), !.name = <<>>]
  ELSE IF token.Type = TokenTypeEquals
    THEN [p EXCEPT !.state = "stateValue"]
  ELSE IF token.Type = TokenTypeSpace
    THEN p
  ELSE
    [p EXCEPT !.name =
       (IF p.name # <<>> /\ p.lastToken.Type = TokenTypeSpace
          THEN p.name \o p.lastToken.Text
          ELSE p.name) \o token.Text]

\* case stateName of the loop body
ParseInName(p, token) ==
  IF token.Type = TokenTypeComma
    THEN IF p.name = <<>>
           THEN p
           ELSE [p EXCEPT !.out = Append(@, Directive(p.name, <<>>, FALSE)),
                          !.name = <<>>]
  ELSE IF token.Type = TokenTypeEquals
    THEN [p EXCEPT !.state = "stateValue"]
  ELSE IF token.Type = TokenTypeSpace
    THEN p
  ELSE \* TokenTypeText
    [p EXCEPT !.name =
       (IF p.name # <<>> /\ p.lastToken.Type = TokenTypeSpace
          THEN p.name \o p.lastToken.Text
          ELSE p.name) \o token.Text]

\* ParseInValue with HasValue taken from the value being non-empty
ParseInValueFlagFromValue(p, token) ==
  IF token.Type = TokenTypeComma
    THEN [p EXCEPT !.out = Append(@, Directive(p.name, p.value, p.value # <<>>)),
                   !.name = <<>>, !.value = <<>>, !.state = "stateName"]
  ELSE IF token.Type = TokenTypeSpace
    THEN p
  ELSE
    [p EXCEPT !.value =
       (IF p.value # <<>> /\ p.lastToken.Type = TokenTypeSpace
          THEN p.value \o p.lastToken.Text
          ELSE p.value) \o token.Text]

\* ParseInValue with a further '=' dropped like a space
ParseInValueDropsEquals(p, token) ==
  IF token.Type = TokenTypeComma
    THEN [p EXCEPT !.out = Append(@, Directive(p.name, p.value, TRUE)),
                   !.name = <<>>, !.value = <<>>, !.state = "stateName"]
  ELSE IF token.Type \in {TokenTypeSpace, TokenTypeEquals}
    THEN p
  ELSE
    [p EXCEPT !.value =
       (IF p.value # <<>> /\ p.lastToken.Type = TokenTypeSpace
          THEN p.value \o p.lastToken.Text
          ELSE p.value) \o token.Text]

\* case stateValue of the loop body
ParseInValue(p, token) ==
  IF token.Type = TokenTypeComma
    THEN [p EXCEPT !.out = Append(@, Directive(p.name, p.value, TRUE)),
                   !.name = <<>>, !.value = <<>>, !.state = "stateName"]
  ELSE IF token.Type = TokenTypeSpace
    THEN p
  ELSE \* TokenTypeEquals and TokenTypeText
    [p EXCEPT !.value =
       (IF p.value # <<>> /\ p.lastToken.Type = TokenTypeSpace
          THEN p.value \o p.lastToken.Text
          ELSE p.value) \o token.Text]

\* one iteration of the loop over the tokens
ParseToken(p, token) ==
  LET q == IF p.state = "stateName" THEN ParseInName(p, token)
                                    ELSE ParseInValue(p, token)
  IN [q EXCEPT !.lastToken = token]

\* ParseFinish with HasValue taken from the value being non-empty
ParseFinishFlagFromValue(p) ==
  IF p.state = "stateName" /\ p.name = <<>>
    THEN p.out
    ELSE Append(p.out, Directive(p.name, p.value, p.value # <<>>))

\* after the loop: the pending directive, if any, is yielded
ParseFinish(p) ==
  IF p.state = "stateName" /\ p.name = <<>>
    THEN p.out
    ELSE Append(p.out, Directive(p.name, p.value, p.state = "stateValue"))

RECURSIVE ParseRun(_, _, _)
ParseRun(p, tokens, k) ==
  IF k > Len(tokens) THEN ParseFinish(p)
  ELSE ParseRun(ParseToken(p, tokens[k]), tokens, k + 1)

\* the sequence of directives Parse(s) yields to a consumer that never stops
Parse(s) == ParseRun(ParseStart, Tokenize(s), 1)

\* a producer that goes on with the elements of its step after yield returned
\* false
YieldIgnoringStop(produced, limit) ==
  [out |-> produced, stopped |-> Len(produced) >= limit]

\* if !yield(...) { return }: of the elements produced so far the consumer,
\* whose yield returns false at element number limit, receives those up to
\* that one, and the producer returns there
YieldUntilStopped(produced, limit) ==
  IF Len(produced) >= limit
    THEN [out |-> SubSeq(produced, 1, limit), stopped |-> TRUE]
    ELSE [out |-> produced, stopped |-> FALSE]

\* ------------------------------------------------------------------------
\* strings helpers
\* ------------------------------------------------------------------------

LowerOf ==
  [c \in Bytes |->
     IF c \in Range(Upper) THEN Lower[CHOOSE k \in DOMAIN Upper : Upper[k] = c]
     ELSE c]

\* a comparison of names that keeps the case of the letters
ToLowerKeepsCase(s) == s

\* strings.ToLower
ToLower(s) == [k \in 1..Len(s) |-> LowerOf[s[k]]]

\* strings.Join
RECURSIVE Join(_, _)
Join(ss, sep) ==
  IF Len(ss) = 0 THEN <<>>
  ELSE IF Len(ss) = 1 THEN ss[1]
  ELSE ss[1] \o sep \o Join(Tail(ss), sep)

\* white space as strings.Fields sees it (unicode.IsSpace on the model's bytes)
IsSpace(c) == c \in {"\t", " "}

\* strings.Fields: the maximal runs of non-space bytes of s, from offset k on,
\* cur being the run in progress
RECURSIVE FieldsFrom(_, _, _)
FieldsFrom(s, k, cur) ==
  IF k > Len(s)
    THEN IF cur = <<>> THEN <<>> ELSE <<cur>>
    ELSE IF IsSpace(s[k])
      THEN (IF cur = <<>> THEN <<>> ELSE <<cur>>) \o FieldsFrom(s, k + 1, <<>>)
      ELSE FieldsFrom(s, k + 1, Append(cur, s[k]))

Fields(s) == FieldsFrom(s, 1, <<>>)

\* a Go slice: nil, or a non-nil slice with its elements
NilSlice == [isNil |-> TRUE, elems |-> <<>>]
SliceOf(elems) == [isNil |-> FALSE, elems |-> elems]

\* ------------------------------------------------------------------------
\* ParseAge and parseDeltaSeconds
\* ------------------------------------------------------------------------

\* width in bits of the unsigned accumulator of parseDeltaSeconds and of
\* time.Duration (64 in the program, scaled down to the integers of the model)
WordBits == 16

\* time.Second in units of time.Duration (10^9 in the program, scaled with WordBits)
Second == 1000

MaxUint == 2^WordBits - 1
MaxInt == 2^(WordBits - 1) - 1

errEmptyDeltaSeconds == "empty value for delta-seconds"
errInvalidDeltaSeconds == "invalid value for delta-seconds"
NoError == "nil"

\* the loop of parseDeltaSeconds over the bytes of s from k on, d the accumulator
RECURSIVE DeltaSecondsFromWrapping(_, _, _)
\* the loop without the d1 < d test: the accumulator wraps silently
DeltaSecondsFromWrapping(s, k, d) ==
  IF k > Len(s) THEN [d |-> d, err |-> NoError]
  ELSE IF Byte(s[k]) < Byte("0") \/ Byte(s[k]) > Byte("9")
    THEN [d |-> 0, err |-> errInvalidDeltaSeconds]
  ELSE DeltaSecondsFromWrapping(s, k + 1, (d * 10 + (Byte(s[k]) - Byte("0"))) % (MaxUint + 1))

RECURSIVE DeltaSecondsFrom(_, _, _)
DeltaSecondsFrom(s, k, d) ==
  IF k > Len(s) THEN [d |-> d, err |-> NoError]
  ELSE IF Byte(s[k]) < Byte("0") \/ Byte(s[k]) > Byte("9")
    THEN [d |-> 0, err |-> errInvalidDeltaSeconds]
  ELSE LET d1 == (d * 10 + (Byte(s[k]) - Byte("0"))) % (MaxUint + 1)
       IN DeltaSecondsFrom(s, k + 1, IF d1 < d THEN MaxUint ELSE d1)

parseDeltaSeconds(s) ==
  IF s = <<>> THEN [d |-> 0, err |-> errEmptyDeltaSeconds]
  ELSE DeltaSecondsFrom(s, 1, 0)

\* int64(d) of an unsigned d
AsSigned(d) == IF d > MaxInt THEN d - (MaxUint + 1) ELSE d

ParseAge(s) ==
  LET r == parseDeltaSeconds(s)
  IN IF r.err # NoError THEN [dur |-> 0, err |-> r.err]
     ELSE IF AsSigned(r.d) < 0 \/ AsSigned(r.d) > MaxInt \div Second
       THEN [dur |-> MaxInt, err |-> NoError]
       ELSE [dur |-> r.d * Second, err |-> NoError]

\* ------------------------------------------------------------------------
\* ParseRequestDirectives and ParseResponseDirectives
\* ------------------------------------------------------------------------

\* the names of the known directives
S_max_age == <<"m", "a", "x", "-", "a", "g", "e">>
S_max_stale == <<"m", "a", "x", "-", "s", "t", "a", "l", "e">>
S_min_fresh == <<"m", "i", "n", "-", "f", "r", "e", "s", "h">>
S_no_cache == <<"n", "o", "-", "c", "a", "c", "h", "e">>
S_no_store == <<"n", "o", "-", "s", "t", "o", "r", "e">>
S_no_transform == <<"n", "o", "-", "t", "r", "a", "n", "s", "f", "o", "r", "m">>
S_only_if_cached == <<"o", "n", "l", "y", "-", "i", "f", "-", "c", "a", "c", "h", "e", "d">>
S_must_revalidate == <<"m", "u", "s", "t", "-", "r", "e", "v", "a", "l", "i", "d", "a", "t", "e">>
S_must_understand == <<"m", "u", "s", "t", "-", "u", "n", "d", "e", "r", "s", "t", "a", "n", "d">>
S_private == <<"p", "r", "i", "v", "a", "t", "e">>
S_proxy_revalidate == <<"p", "r", "o", "x", "y", "-", "r", "e", "v", "a", "l", "i", "d", "a", "t", "e">>
S_public == <<"p", "u", "b", "l", "i", "c">>
S_s_maxage == <<"s", "-", "m", "a", "x", "a", "g", "e">>

\* the zero RequestDirectives
ZeroRequestDirectives ==
  [MaxAge |-> 0, MaxStale |-> 0, MinFresh |-> 0, NoCache |-> FALSE,
   NoStore |-> FALSE, NoTransform |-> FALSE, OnlyIfCached |-> FALSE,
   Extensions |-> <<>>]

\* the zero ResponseDirectives
ZeroResponseDirectives ==
  [MaxAge |-> 0, MustRevalidate |-> FALSE, MustUnderstand |-> FALSE,
   NoCache |-> FALSE, NoCacheHeaders |-> NilSlice, NoStore |-> FALSE,
   NoTransform |-> FALSE, Private |-> FALSE, PrivateHeaders |-> NilSlice,
   ProxyRevalidate |-> FALSE, Public |-> FALSE, SMaxAge |-> 0,
   Extensions |-> <<>>]

\* an entry of errs: the directive the error is reported for, and the error
DirectiveError(name, err) == [directive |-> name, err |-> err]

\* a numeric directive whose value no longer replaces the field: the field is
\* zeroed when the value does not parse
NumericDirectiveZeroOnError(r, field, name, d) ==
  LET age == ParseAge(d.Value)
  IN IF age.err # NoError
       THEN [r EXCEPT !.errs = Append(@, DirectiveError(name, age.err)),
                      !.c[field] = 0]
       ELSE [r EXCEPT !.c[field] = age.dur]

\* a numeric directive reporting one error per name, not per occurrence
NumericDirectiveOneErrorPerName(r, field, name, d) ==
  LET age == ParseAge(d.Value)
  IN IF age.err # NoError
       THEN IF \E k \in DOMAIN r.errs : r.errs[k].directive = name
              THEN r
              ELSE [r EXCEPT !.errs = Append(@, DirectiveError(name, age.err))]
       ELSE [r EXCEPT !.c[field] = age.dur]

\* a numeric directive: the case of max-age, max-stale, min-fresh and s-maxage
\* (r is [c, errs]: the directives and the errors collected so far)
NumericDirective(r, field, name, d) ==
  LET age == ParseAge(d.Value)
  IN IF age.err # NoError
       THEN [r EXCEPT !.errs = Append(@, DirectiveError(name, age.err))]
       ELSE [r EXCEPT !.c[field] = age.dur]

\* a flag that a second occurrence switches off again
SetFlagToggles(r, field) == [r EXCEPT !.c[field] = ~@]

\* a flag directive: c.<field> = true
SetFlag(r, field) == [r EXCEPT !.c[field] = TRUE]

\* a list directive whose value-less occurrence leaves an earlier list in place
ListDirectiveKeepsList(r, flag, list, d) ==
  [r EXCEPT !.c[flag] = TRUE,
            !.c[list] = IF d.HasValue THEN SliceOf(Fields(d.Value)) ELSE @]

\* no-cache and private of a response: the flag, and the header-name list
ListDirective(r, flag, list, d) ==
  [r EXCEPT !.c[flag] = TRUE,
            !.c[list] = IF d.HasValue THEN SliceOf(Fields(d.Value)) ELSE NilSlice]

\* the conversion ExtensionDirective(d): the same Name, Value and HasValue
ExtensionDirective(d) == [Name |-> d.Name, Value |-> d.Value, HasValue |-> d.HasValue]

\* an extension that replaces an earlier one of the same name
AppendExtensionMerging(r, d) ==
  IF \E k \in DOMAIN r.c.Extensions : r.c.Extensions[k].Name = d.Name
    THEN [r EXCEPT !.c.Extensions =
            [k \in DOMAIN @ |-> IF @[k].Name = d.Name THEN ExtensionDirective(d) ELSE @[k]]]
    ELSE [r EXCEPT !.c.Extensions = Append(@, ExtensionDirective(d))]

\* the default case: c.Extensions = append(c.Extensions, ExtensionDirective(d))
AppendExtension(r, d) == [r EXCEPT !.c.Extensions = Append(@, ExtensionDirective(d))]

\* one iteration of the loop of ParseRequestDirectives
RequestDirectiveStep(r, d) ==
  LET name == ToLower(d.Name)
  IN IF name = S_max_age THEN NumericDirective(r, "MaxAge", S_max_age, d)
     ELSE IF name = S_max_stale THEN NumericDirective(r, "MaxStale", S_max_stale, d)
     ELSE IF name = S_min_fresh THEN NumericDirective(r, "MinFresh", S_min_fresh, d)
     ELSE IF name = S_no_cache THEN SetFlag(r, "NoCache")
     ELSE IF name = S_no_store THEN SetFlag(r, "NoStore")
     ELSE IF name = S_no_transform THEN SetFlag(r, "NoTransform")
     ELSE IF name = S_only_if_cached THEN SetFlag(r, "OnlyIfCached")
     ELSE AppendExtension(r, d)

\* one iteration of the loop of ParseResponseDirectives
ResponseDirectiveStep(r, d) ==
  LET name == ToLower(d.Name)
  IN IF name = S_max_age THEN NumericDirective(r, "MaxAge", S_max_age, d)
     ELSE IF name = S_must_revalidate THEN SetFlag(r, "MustRevalidate")
     ELSE IF name = S_must_understand THEN SetFlag(r, "MustUnderstand")
     ELSE IF name = S_no_cache THEN ListDirective(r, "NoCache", "NoCacheHeaders", d)
     ELSE IF name = S_no_store THEN SetFlag(r, "NoStore")
     ELSE IF name = S_no_transform THEN SetFlag(r, "NoTransform")
     ELSE IF name = S_private THEN ListDirective(r, "Private", "PrivateHeaders", d)
     ELSE IF name = S_proxy_revalidate THEN SetFlag(r, "ProxyRevalidate")
     ELSE IF name = S_public THEN SetFlag(r, "Public")
     ELSE IF name = S_s_maxage THEN NumericDirective(r, "SMaxAge", S_s_maxage, d)
     ELSE AppendExtension(r, d)

RECURSIVE RequestDirectivesRun(_, _, _)
RequestDirectivesRun(r, ds, k) ==
  IF k > Len(ds) THEN r
  ELSE RequestDirectivesRun(RequestDirectiveStep(r, ds[k]), ds, k + 1)

RECURSIVE ResponseDirectivesRun(_, _, _)
ResponseDirectivesRun(r, ds, k) ==
  IF k > Len(ds) THEN r
  ELSE ResponseDirectivesRun(ResponseDirectiveStep(r, ds[k]), ds, k + 1)

\* gives [c, errs]; the returned error is nil when errs is empty and the
\* errors.Join of errs otherwise
ParseRequestDirectives(header) ==
  RequestDirectivesRun([c |-> ZeroRequestDirectives, errs |-> <<>>], Parse(header), 1)

ParseResponseDirectives(header) ==
  ResponseDirectivesRun([c |-> ZeroResponseDirectives, errs |-> <<>>], Parse(header), 1)

\* strconv.Itoa of a non-negative int
RECURSIVE Itoa(_)
Itoa(n) ==
  IF n < 10 THEN <<Digits[n + 1]>>
  ELSE Itoa(n \div 10) \o <<Digits[(n % 10) + 1]>>

\* ExtensionDirective.String
ExtensionDirectiveString(e) ==
  IF e.HasValue THEN e.Name \o <<"=", "\"">> \o e.Value \o <<"\"">>
  ELSE e.Name

\* the element "<name>=<seconds>" of ss, when the duration is positive
DurationString(name, dur) ==
  IF dur > 0 THEN <<name \o <<"=">> \o Itoa(dur \div Second)>> ELSE <<>>

\* the element "<name>" of ss, when the flag is set
FlagString(name, flag) == IF flag THEN <<name>> ELSE <<>>

\* the element of ss for no-cache and private: with the header names in a
\* quoted string when there are any
ListString(name, flag, list) ==
  IF ~flag THEN <<>>
  ELSE IF Len(list.elems) > 0
    THEN <<name \o <<"=", "\"">> \o Join(list.elems, <<" ">>) \o <<"\"">>>>
  ELSE <<name>>

\* the elements of ss for the extensions
ExtensionStrings(exts) == [k \in DOMAIN exts |-> ExtensionDirectiveString(exts[k])]

\* RequestDirectives.String
RequestDirectivesString(d) ==
  Join(DurationString(S_max_age, d.MaxAge)
         \o DurationString(S_max_stale, d.MaxStale)
         \o DurationString(S_min_fresh, d.MinFresh)
         \o FlagString(S_no_cache, d.NoCache)
         \o FlagString(S_no_store, d.NoStore)
         \o FlagString(S_no_transform, d.NoTransform)
         \o FlagString(S_only_if_cached, d.OnlyIfCached)
         \o ExtensionStrings(d.Extensions),
       <<",", " ">>)

\* ResponseDirectives.String
ResponseDirectivesString(d) ==
  Join(DurationString(S_max_age, d.MaxAge)
         \o FlagString(S_must_revalidate, d.MustRevalidate)
         \o FlagString(S_must_understand, d.MustUnderstand)
         \o ListString(S_no_cache, d.NoCache, d.NoCacheHeaders)
         \o FlagString(S_no_store, d.NoStore)
         \o FlagString(S_no_transform, d.NoTransform)
         \o ListString(S_private, d.Private, d.PrivateHeaders)
         \o FlagString(S_proxy_revalidate, d.ProxyRevalidate)
         \o FlagString(S_public, d.Public)
         \o DurationString(S_s_maxage, d.SMaxAge)
         \o ExtensionStrings(d.Extensions),
       <<",", " ">>)

\* ------------------------------------------------------------------------
\* Config, Request, Response
\* ------------------------------------------------------------------------

\* a policy hook of Config: nil, or a function, given by the arguments it
\* returns true for (CacheableByExtension: by the status codes of the responses
\* it returns true for; it reads nothing else)
NilHook == [isNil |-> TRUE, accepts |-> {}]
Hook(accepted) == [isNil |-> FALSE, accepts |-> accepted]

\* the zero Config
ZeroConfig ==
  [CacheableByExtension |-> NilHook,
   CanUnderstandResponseCode |-> NilHook,
   IgnoreRequestDirectiveNoStore |-> FALSE,
   IsHeuristicallyCacheableStatusCode |-> NilHook,
   Private |-> FALSE,
   RespectPrivateHeaders |-> FALSE,
   StoreProxyHeaders |-> FALSE,
   SupportedRequestMethod |-> NilHook]

HeuristicallyCacheableStatusCodes ==
  <<200, 203, 204, 206, 300, 301, 308, 404, 405, 410, 414, 501>>

StatusPartialContent == 206
StatusNotModified == 304

\* Request.Authorized
Authorized(r) == Len(r.Header["Authorization"]) # 0

\* Request.Directives
RequestDirectives(r) ==
  ParseRequestDirectives(Join(r.Header["Cache-Control"], <<",", " ">>))

\* Response.Directives
ResponseDirectives(r) ==
  ParseResponseDirectives(Join(r.Header["Cache-Control"], <<",", " ">>))

\* strings.Join of header values that the model keeps as whole strings
RECURSIVE JoinText(_, _)
JoinText(ss, sep) ==
  IF Len(ss) = 0 THEN ""
  ELSE IF Len(ss) = 1 THEN ss[1]
  ELSE ss[1] \o sep \o JoinText(Tail(ss), sep)

\* the zero time.Time: January 1, year 1, 00:00:00 UTC
ZeroTime == [year |-> 1, month |-> 1, day |-> 1, hour |-> 0, min |-> 0, sec |-> 0]

IsZero(t) == t = ZeroTime

\* ParseExpires: time.Parse with the layout "Mon, 02 Jan 2006 15:04:05 GMT",
\* on the Expires strings of the model; every other string is an error, with
\* the zero time
ParseExpires(s) ==
  IF s = "Wed, 21 Oct 2015 07:28:00 GMT"
    THEN [t |-> [year |-> 2015, month |-> 10, day |-> 21,
                 hour |-> 7, min |-> 28, sec |-> 0], err |-> FALSE]
  ELSE IF s = "Mon, 01 Jan 0001 00:00:00 GMT"
    THEN [t |-> ZeroTime, err |-> FALSE]
  ELSE [t |-> ZeroTime, err |-> TRUE]

\* Response.Expires that parses the first value and ignores the others
ExpiresFirstValue(r) ==
  IF Len(r.Header["Expires"]) = 0
    THEN [t |-> ZeroTime, err |-> FALSE]
    ELSE ParseExpires(r.Header["Expires"][1])

\* Response.Expires
Expires(r) ==
  IF Len(r.Header["Expires"]) = 0
    THEN [t |-> ZeroTime, err |-> FALSE]
    ELSE ParseExpires(JoinText(r.Header["Expires"], ", "))

\* slices.Contains
Contains(list, x) == \E k \in DOMAIN list : list[k] = x

\* ------------------------------------------------------------------------
\* Config.CanStore
\* ------------------------------------------------------------------------

cacheableByExtension(c, req, resp) ==
  IF c.CacheableByExtension.isNil THEN FALSE
  ELSE resp.StatusCode \in c.CacheableByExtension.accepts

\* canUnderstandResponseCode that takes a nil hook as understanding every code
canUnderstandNilAccepts(c, code) ==
  IF c.CanUnderstandResponseCode.isNil THEN TRUE
  ELSE code \in c.CanUnderstandResponseCode.accepts

canUnderstandResponseCode(c, code) ==
  IF c.CanUnderstandResponseCode.isNil THEN FALSE
  ELSE code \in c.CanUnderstandResponseCode.accepts

\* isHeuristicallyCacheableStatusCode that consults the default list as well
\* when the hook is set
isHeuristicallyCacheableHookOrDefault(c, code) ==
  \/ Contains(HeuristicallyCacheableStatusCodes, code)
  \/ ~c.IsHeuristicallyCacheableStatusCode.isNil
       /\ code \in c.IsHeuristicallyCacheableStatusCode.accepts

isHeuristicallyCacheableStatusCode(c, code) ==
  IF c.IsHeuristicallyCacheableStatusCode.isNil
    THEN Contains(HeuristicallyCacheableStatusCodes, code)
    ELSE code \in c.IsHeuristicallyCacheableStatusCode.accepts

supportedRequestMethod(c, method) ==
  IF c.SupportedRequestMethod.isNil
    THEN method = "GET" \/ method = "HEAD" \/ method = "QUERY"
    ELSE method \in c.SupportedRequestMethod.accepts

\* the response needs a cache that understands its status code: status 206 or
\* 304, or the must-understand directive
MustUnderstandStatusCode(resp, respDirectives) ==
  \/ resp.StatusCode = StatusPartialContent
  \/ resp.StatusCode = StatusNotModified
  \/ respDirectives.MustUnderstand

\* ResponseForbidsStorage with public overriding no-store
NoStoreUnlessPublic(respDirectives) ==
  respDirectives.NoStore /\ ~respDirectives.Public

\* the no-store directive is present in the response
ResponseForbidsStorage(respDirectives) == respDirectives.NoStore

\* PrivateForbidsSharedStorage that does not look at the header-name list
PrivateIgnoringEmptyList(c, respDirectives) ==
  /\ ~c.Private
  /\ respDirectives.Private
  /\ ~c.RespectPrivateHeaders

\* the cache is shared and the private directive does not allow it to store a
\* modified response
PrivateForbidsSharedStorage(c, respDirectives) ==
  /\ ~c.Private
  /\ respDirectives.Private
  /\ (~c.RespectPrivateHeaders \/ Len(respDirectives.PrivateHeaders.elems) = 0)

\* AuthorizationForbidsSharedStorage with max-age allowing shared caching too
AuthorizationLiftedByMaxAge(c, req, respDirectives) ==
  /\ ~c.Private
  /\ Authorized(req)
  /\ ~respDirectives.MustRevalidate
  /\ ~respDirectives.Public
  /\ respDirectives.SMaxAge <= 0
  /\ respDirectives.MaxAge <= 0

\* the cache is shared, the request has Authorization and no response directive
\* explicitly allows shared caching
AuthorizationForbidsSharedStorage(c, req, respDirectives) ==
  /\ ~c.Private
  /\ Authorized(req)
  /\ ~respDirectives.MustRevalidate
  /\ ~respDirectives.Public
  /\ respDirectives.SMaxAge <= 0

\* the switch over the freshness signals: TRUE when a case other than default
\* is taken
HasFreshnessSignal(c, req, resp, respDirectives) ==
  LET respExpires == Expires(resp).t
  IN \/ respDirectives.Public
     \/ c.Private /\ respDirectives.Private
     \/ ~IsZero(respExpires)
     \/ respDirectives.MaxAge > 0
     \/ ~c.Private /\ respDirectives.SMaxAge > 0
     \/ cacheableByExtension(c, req, resp)
     \/ isHeuristicallyCacheableStatusCode(c, resp.StatusCode)

\* RequestForbidsStorage that does not look at IgnoreRequestDirectiveNoStore
RequestNoStoreAlways(c, req) == RequestDirectives(req).c.NoStore

\* the no-store request directive is present and is not ignored
RequestForbidsStorage(c, req) ==
  ~c.IgnoreRequestDirectiveNoStore /\ RequestDirectives(req).c.NoStore

CanStore(c, req, resp) ==
  LET respDirectives == ResponseDirectives(resp).c
  IN IF ~supportedRequestMethod(c, req.Method) THEN FALSE
     ELSE IF resp.StatusCode < 200 THEN FALSE
     ELSE IF /\ MustUnderstandStatusCode(resp, respDirectives)
             /\ ~canUnderstandResponseCode(c, resp.StatusCode)
       THEN FALSE
     ELSE IF ResponseForbidsStorage(respDirectives) THEN FALSE
     ELSE IF PrivateForbidsSharedStorage(c, respDirectives) THEN FALSE
     ELSE IF AuthorizationForbidsSharedStorage(c, req, respDirectives) THEN FALSE
     ELSE IF ~HasFreshnessSignal(c, req, resp, respDirectives) THEN FALSE
     ELSE IF RequestForbidsStorage(c, req) THEN FALSE
     ELSE TRUE

\* ------------------------------------------------------------------------
\* CanStore, one precondition per step, with the hooks it invokes and the
\* package variable it reads
\* ------------------------------------------------------------------------

\* what a call of CanStore holds while it runs: its receiver and arguments,
\* its position, the local respDirectives, the hooks invoked and the request
\* directives examined so far, in order, and the value it returned
Call(c, rq, rs, pc) ==
  [cfg |-> c, req |-> rq, resp |-> rs, pc |-> pc,
   respDirectives |-> ZeroResponseDirectives,
   trace |-> <<>>, result |-> FALSE]

\* a call that returns false at once
ReturnFalse(call) == [call EXCEPT !.pc = "returned", !.result = FALSE]

\* the call with a hook of the Config invoked, when the hook is not nil
Invoked(call, hook) ==
  IF call.cfg[hook].isNil THEN call
  ELSE [call EXCEPT !.trace = Append(@, hook)]

\* the request method is understood by the cache
MethodStep(call) ==
  LET asked == Invoked(call, "SupportedRequestMethod")
  IN IF ~supportedRequestMethod(call.cfg, call.req.Method) THEN ReturnFalse(asked)
     ELSE [asked EXCEPT !.pc = "final"]

\* the response status code is final; then resp.Directives()
FinalStep(call) ==
  IF call.resp.StatusCode < 200 THEN ReturnFalse(call)
  ELSE [call EXCEPT !.pc = "understand",
                    !.respDirectives = ResponseDirectives(call.resp).c]

\* the cache understands the response status code, where it has to
UnderstandStep(call) ==
  IF MustUnderstandStatusCode(call.resp, call.respDirectives)
    THEN LET asked == Invoked(call, "CanUnderstandResponseCode")
         IN IF ~canUnderstandResponseCode(call.cfg, call.resp.StatusCode)
              THEN ReturnFalse(asked)
              ELSE [asked EXCEPT !.pc = "nostore"]
    ELSE [call EXCEPT !.pc = "nostore"]

NoStoreStep(call) ==
  IF ResponseForbidsStorage(call.respDirectives) THEN ReturnFalse(call)
  ELSE [call EXCEPT !.pc = "private"]

PrivateStep(call) ==
  IF PrivateForbidsSharedStorage(call.cfg, call.respDirectives) THEN ReturnFalse(call)
  ELSE [call EXCEPT !.pc = "authorization"]

AuthorizationStep(call) ==
  IF AuthorizationForbidsSharedStorage(call.cfg, call.req, call.respDirectives)
    THEN ReturnFalse(call)
    ELSE [call EXCEPT !.pc = "freshness"]

\* the cases of the switch before the hooks: resp.Expires() and the directives
FreshnessStep(call) ==
  LET respExpires == Expires(call.resp).t
  IN IF \/ call.respDirectives.Public
        \/ call.cfg.Private /\ call.respDirectives.Private
        \/ ~IsZero(respExpires)
        \/ call.respDirectives.MaxAge > 0
        \/ ~call.cfg.Private /\ call.respDirectives.SMaxAge > 0
       THEN [call EXCEPT !.pc = "request"]
       ELSE [call EXCEPT !.pc = "extension"]

\* case c.cacheableByExtension(req, resp)
ExtensionStep(call) ==
  LET asked == Invoked(call, "CacheableByExtension")
  IN IF cacheableByExtension(call.cfg, call.req, call.resp)
       THEN [asked EXCEPT !.pc = "request"]
       ELSE [asked EXCEPT !.pc = "heuristic"]

\* case c.isHeuristicallyCacheableStatusCode(resp.StatusCode), codes being
\* what the call reads from the package variable when the hook is nil
HeuristicStep(call, codes) ==
  LET asked == Invoked(call, "IsHeuristicallyCacheableStatusCode")
      cacheable ==
        IF call.cfg.IsHeuristicallyCacheableStatusCode.isNil
          THEN Contains(codes, call.resp.StatusCode)
          ELSE call.resp.StatusCode \in call.cfg.IsHeuristicallyCacheableStatusCode.accepts
  IN IF cacheable THEN [asked EXCEPT !.pc = "request"] ELSE ReturnFalse(asked)

\* the no-store request directive, unless it is ignored
RequestStep(call) ==
  IF ~call.cfg.IgnoreRequestDirectiveNoStore
    THEN LET examined == [call EXCEPT !.trace = Append(@, "req.Directives")]
         IN IF RequestDirectives(call.req).c.NoStore THEN ReturnFalse(examined)
            ELSE [examined EXCEPT !.pc = "returned", !.result = TRUE]
    ELSE [call EXCEPT !.pc = "returned", !.result = TRUE]

\* the shorter of two lengths
Min(a, b) == IF a < b THEN a ELSE b

\* what a read of a slice variable can give while an assignment of next to it
\* is under way and the variable held prev: either slice, or the array of one
\* with the length of the other (the elements they have in common positions)
RacingReads(prev, next) ==
  {prev, next,
   SubSeq(prev, 1, Min(Len(prev), Len(next))),
   SubSeq(next, 1, Min(Len(prev), Len(next)))}

\* ------------------------------------------------------------------------
\* Config.RemoveUnstorableHeaders
\* ------------------------------------------------------------------------

\* the keys of the header map the function names
H_Connection == <<"C", "o", "n", "n", "e", "c", "t", "i", "o", "n">>

H_Cache_Control == <<"C", "a", "c", "h", "e", "-", "C", "o", "n", "t", "r", "o", "l">>

H_Proxy_Authenticate == <<"P", "r", "o", "x", "y", "-", "A", "u", "t", "h", "e", "n", "t", "i", "c", "a", "t", "e">>

H_Proxy_Authentication_Info == <<"P", "r", "o", "x", "y", "-", "A", "u", "t", "h", "e", "n", "t", "i", "c", "a", "t", "i", "o", "n", "-", "I", "n", "f", "o">>

H_Proxy_Authorization == <<"P", "r", "o", "x", "y", "-", "A", "u", "t", "h", "o", "r", "i", "z", "a", "t", "i", "o", "n">>

\* the bytes net/textproto accepts in a header field name (token bytes)
validHeaderFieldByte(c) ==
  c \in Range(Digits) \cup Range(Upper) \cup Range(Lower) \cup {"+", "-", "."}

UpperOf ==
  [c \in Bytes |->
     IF c \in Range(Lower) THEN Upper[CHOOSE k \in DOMAIN Lower : Lower[k] = c]
     ELSE c]

\* http.CanonicalHeaderKey: a key with a byte that is not a token byte comes
\* back unchanged; otherwise the first letter and every letter after a '-'
\* is upper-cased and every other letter lower-cased
CanonicalHeaderKey(s) ==
  IF \E k \in DOMAIN s : ~validHeaderFieldByte(s[k]) THEN s
  ELSE [k \in 1..Len(s) |->
          IF k = 1 \/ s[k - 1] = "-" THEN UpperOf[s[k]] ELSE LowerOf[s[k]]]

\* headers[key] of a Go map: the values, or nil when the key is absent
HeaderValues(headers, key) == IF key \in DOMAIN headers THEN headers[key] ELSE <<>>

\* delete(headers, key) for every key of keys
DeleteAll(headers, keys) == [k \in DOMAIN headers \ keys |-> headers[k]]

\* the whitespace-separated fields of the values of a header
FieldsOfValues(values) == UNION {Range(Fields(values[k])) : k \in DOMAIN values}

\* the Connection header and the headers its fields name
RemoveConnectionHeaders(headers) ==
  LET connection == HeaderValues(headers, H_Connection)
  IN DeleteAll(headers,
       {H_Connection} \cup {CanonicalHeaderKey(f) : f \in FieldsOfValues(connection)})

\* a variant that removes the headers private names under every configuration
RemovePrivateHeadersAlways(c, headers) ==
  IF Len(HeaderValues(headers, H_Cache_Control)) > 0
    THEN LET directives ==
               ParseResponseDirectives(Join(headers[H_Cache_Control], <<",">>)).c
         IN DeleteAll(headers,
              {CanonicalHeaderKey(f) : f \in Range(directives.PrivateHeaders.elems)})
    ELSE headers

\* the headers the private directive names, when the configuration respects them
RemovePrivateHeaders(c, headers) ==
  IF c.RespectPrivateHeaders /\ Len(HeaderValues(headers, H_Cache_Control)) > 0
    THEN LET directives ==
               ParseResponseDirectives(Join(headers[H_Cache_Control], <<",">>)).c
         IN DeleteAll(headers,
              {CanonicalHeaderKey(f) : f \in Range(directives.PrivateHeaders.elems)})
    ELSE headers

\* a variant that removes the proxy headers under every configuration
RemoveProxyHeadersAlways(c, headers) ==
  DeleteAll(headers,
    {H_Proxy_Authenticate, H_Proxy_Authentication_Info, H_Proxy_Authorization})

\* the three proxy headers, unless the configuration stores them
RemoveProxyHeaders(c, headers) ==
  IF ~c.StoreProxyHeaders
    THEN DeleteAll(headers,
           {H_Proxy_Authenticate, H_Proxy_Authentication_Info, H_Proxy_Authorization})
    ELSE headers

\* the header map after the call
RemoveUnstorableHeaders(c, headers) ==
  RemoveProxyHeaders(c, RemovePrivateHeaders(c, RemoveConnectionHeaders(headers)))

\* ------------------------------------------------------------------------
\* Bounds and inputs of the model
\* ------------------------------------------------------------------------

\* longest input string given to Tokenize
MaxLen == 5

\* the bytes the tokenizer inputs are built from
TokAlphabet == {" ", "DEL", ",", "=", "\"", "\\", "a"}

\* number of fields and header lines by which the configuration, request and
\* response given to CanStore differ from the zero Config, a plain GET request
\* and a plain 200 response
MaxSetup == 3

Methods == {"GET", "HEAD", "QUERY", "POST"}

StatusCodes == {199, 200, 201, 206, 304}

\* Cache-Control lines of the responses
ResponseLines ==
  {<<"p", "u", "b", "l", "i", "c">>,
   <<"p", "r", "i", "v", "a", "t", "e">>,
   <<"p", "r", "i", "v", "a", "t", "e", "=", "a">>,
   <<"p", "r", "i", "v", "a", "t", "e", "=">>,
   <<"n", "o", "-", "s", "t", "o", "r", "e">>,
   <<"N", "o", "-", "S", "t", "o", "r", "e">>,
   <<"m", "a", "x", "-", "a", "g", "e", "=", "1">>,
   <<"m", "a", "x", "-", "a", "g", "e", "=", "0">>,
   <<"m", "a", "x", "-", "a", "g", "e", "=", "x">>,
   <<"s", "-", "m", "a", "x", "a", "g", "e", "=", "1">>,
   <<"s", "-", "m", "a", "x", "a", "g", "e", "=", "0">>,
   <<"s", "-", "m", "a", "x", "a", "g", "e", "=", "x">>,
   <<"\"">>,
   <<"m", "u", "s", "t", "-", "r", "e", "v", "a", "l", "i", "d", "a", "t", "e">>,
   <<"m", "u", "s", "t", "-", "u", "n", "d", "e", "r", "s", "t", "a", "n", "d">>}

\* Cache-Control lines of the requests
RequestLines ==
  {<<"n", "o", "-", "s", "t", "o", "r", "e">>,
   <<"n", "o", "-", "c", "a", "c", "h", "e">>}

\* Expires values of the responses: a date, the date of the zero time, a date
\* without zone, and two values that joined with ", " make a date
ExpiresValues ==
  {"Wed, 21 Oct 2015 07:28:00 GMT", "Mon, 01 Jan 0001 00:00:00 GMT",
   "Wed, 21 Oct 2015 07:28:00", "Wed", "21 Oct 2015 07:28:00 GMT"}

AuthorizationValues == {"", "Basic dXNlcg=="}

MethodHooks == {Hook({"POST"}), Hook(Methods)}
UnderstandHooks == {Hook({StatusPartialContent}), Hook(StatusCodes)}
ExtensionHooks == {Hook({}), Hook(StatusCodes)}
HeuristicHooks == {Hook({201}), Hook(StatusCodes)}

\* a GET request without headers
PlainRequest ==
  [Method |-> "GET",
   Header |-> [n \in {"Authorization", "Cache-Control"} |-> <<>>]]

\* a 200 response without headers
PlainResponse ==
  [StatusCode |-> 200,
   Header |-> [n \in {"Cache-Control", "Expires"} |-> <<>>]]

\* most directives in a header given to ParseRequestDirectives and
\* ParseResponseDirectives
MaxDirectives == 3

\* a directive as the header spells it: name, name=value or name="value"
Seg(name, hasValue, value, quoted) ==
  [Name |-> name, HasValue |-> hasValue, Value |-> value, Quoted |-> quoted]

Bare(name) == Seg(name, FALSE, <<>>, FALSE)

Valued(name, value) == Seg(name, TRUE, value, FALSE)

S_Max_Age == <<"M", "a", "x", "-", "A", "g", "e">>
S_No_Store == <<"N", "o", "-", "S", "t", "o", "r", "e">>
S_Foo == <<"F", "o", "o">>
S_foo == <<"f", "o", "o">>

\* the directives of the request headers
RequestSegments ==
  {Valued(S_max_age, <<"1">>), Valued(S_Max_Age, <<"2">>), Valued(S_max_age, <<"1", "x">>),
   Valued(S_max_stale, <<"1">>), Bare(S_max_stale),
   Valued(S_min_fresh, <<"2">>), Valued(S_min_fresh, <<>>),
   Valued(S_no_cache, <<"a">>), Bare(S_No_Store), Bare(S_no_transform),
   Bare(S_only_if_cached), Bare(S_public), Valued(S_s_maxage, <<"1">>),
   Valued(S_Foo, <<"1">>), Bare(S_foo)}

\* the directives of the response headers
ResponseSegments ==
  {Valued(S_max_age, <<"1">>), Valued(S_Max_Age, <<"2">>), Valued(S_max_age, <<"1", "x">>),
   Valued(S_s_maxage, <<"1">>), Valued(S_s_maxage, <<>>),
   Bare(S_must_revalidate), Bare(S_must_understand),
   Bare(S_no_cache), Valued(S_no_cache, <<"a">>),
   Valued(S_No_Store, <<"1">>), Bare(S_no_transform),
   Bare(S_private), Seg(S_private, TRUE, <<"a", " ", "b">>, TRUE),
   Bare(S_proxy_revalidate), Bare(S_public), Valued(S_max_stale, <<"1">>),
   Valued(S_Foo, <<"1">>), Bare(S_foo)}

\* the text of a directive in a header
SegmentText(g) ==
  IF ~g.HasValue THEN g.Name
  ELSE IF g.Quoted THEN g.Name \o <<"=", "\"">> \o g.Value \o <<"\"">>
  ELSE g.Name \o <<"=">> \o g.Value

\* the header listing the directives gs
HeaderOf(gs) == Join([k \in DOMAIN gs |-> SegmentText(gs[k])], <<",", " ">>)

\* the directives of the headers that are rendered and classified again:
\* durations, flags, and extensions without value, with a plain value and
\* with a value that holds a comma, a double quote or a backslash
RenderedSegments(v) ==
  {Valued(S_max_age, <<"1">>), Bare(S_no_store), Bare(S_no_transform),
   Bare(S_foo), Valued(S_foo, <<"1">>),
   Seg(S_foo, TRUE, <<"a", ",", "b">>, TRUE),
   Seg(S_foo, TRUE, <<"a", "\\", "\"", "b">>, TRUE),
   Seg(S_foo, TRUE, <<"a", "\\", "\\", "b">>, TRUE)}
    \cup (IF v = "request"
            THEN {Valued(S_min_fresh, <<"2">>), Bare(S_only_if_cached)}
            ELSE {Seg(S_private, TRUE, <<"a", " ", "b">>, TRUE), Bare(S_public)})

\* longest input string given to Parse
MaxParseLen == 5

\* the bytes the inputs of Parse are built from
ParseAlphabet == {" ", ",", "=", "\"", "a", "b"}

\* longest input string given to ParseAge
MaxAgeLen == 5

\* the bytes the inputs of ParseAge are built from
AgeAlphabet == {"0", "2", "3", "5", "6", "9", "x"}

\* most values of the Connection header
MaxConnectionValues == 2

\* keys of response headers besides the ones the function names
H_Age == <<"A", "g", "e">>

H_X_A == <<"X", "-", "A">>

H_Expires == <<"E", "x", "p", "i", "r", "e", "s">>

\* the values the Connection header is built from
ConnectionValues ==
  {<<"c", "l", "o", "s", "e">>,
   <<"a", "g", "e">>,
   <<"A", "g", "e">>,
   <<"a", "g", "e", ",", " ", "x", "-", "a">>,
   <<"A", "g", "e", ",", "X", "-", "A">>,
   <<"x", "-", "a", " ", "a", "g", "e">>,
   <<"c", "a", "c", "h", "e", "-", "c", "o", "n", "t", "r", "o", "l">>,
   <<"p", "r", "o", "x", "y", "-", "a", "u", "t", "h", "o", "r", "i", "z", "a", "t", "i", "o", "n">>}

\* the values of the Cache-Control header; the empty list is a response
\* without the header
CacheControlValues ==
  {<<>>,
   <<<<"p", "r", "i", "v", "a", "t", "e">>>>,
   <<<<"p", "r", "i", "v", "a", "t", "e", "=", "\"", "X", "-", "A", "\"">>>>,
   <<<<"p", "r", "i", "v", "a", "t", "e", "=", "\"", "x", "-", "a", " ", "a", "g", "e", "\"">>>>,
   <<<<"n", "o", "-", "c", "a", "c", "h", "e", "=", "\"", "X", "-", "A", "\"">>>>,
   <<<<"p", "r", "i", "v", "a", "t", "e", "=", "A", "g", "e">>, <<"m", "a", "x", "-", "a", "g", "e", "=", "1">>>>,
   <<<<"p", "r", "i", "v", "a", "t", "e", "=", "\"", "p", "r", "o", "x", "y", "-", "a", "u", "t", "h", "e", "n", "t", "i", "c", "a", "t", "e", "\"">>>>}

\* the headers every response of the model carries
PlainHeaders ==
  (H_Age :> <<<<"1">>>>) @@ (H_X_A :> <<<<"a">>, <<"b">>>>) @@ (H_Expires :> <<<<"0">>>>)

\* the proxy headers of a response that carries them
ProxyHeaders ==
  (H_Proxy_Authenticate :> <<<<"p">>>>) @@ (H_Proxy_Authentication_Info :> <<<<"q">>>>)
    @@ (H_Proxy_Authorization :> <<<<"r">>>>)

\* a header map without the keys whose list of values is empty
WithValues(headers) == [k \in {x \in DOMAIN headers : headers[x] # <<>>} |-> headers[k]]

\* the header maps RemoveUnstorableHeaders is called on
HeaderMaps ==
  {WithValues((H_Connection :> cn) @@ (H_Cache_Control :> cc) @@ px @@ PlainHeaders) :
     cn \in StringsUpTo(ConnectionValues, MaxConnectionValues),
     cc \in CacheControlValues,
     px \in {ProxyHeaders, <<>>}}

\* longest input of the scans that are followed to their end
MaxTermLen == 4

\* longest input given to Tokenize and Parse under a consumer that stops
MaxLazyLen == 4

\* the bytes those inputs are built from
LazyAlphabet == {" ", ",", "=", "\"", "a"}

\* most elements a consumer takes before it stops
MaxStop == 2

\* the calls of CanStore that run at the same time
Calls == {1, 2}

\* assignments the program makes to HeuristicallyCacheableStatusCodes
MaxWrites == 1

\* the slices the program assigns to HeuristicallyCacheableStatusCodes
StatusCodeTables ==
  {<<>>, <<201>>, HeuristicallyCacheableStatusCodes \o <<201>>}

\* the configurations of the calls whose hooks are observed
HookConfigs ==
  {[ZeroConfig EXCEPT !.SupportedRequestMethod = m,
                      !.CanUnderstandResponseCode = u,
                      !.CacheableByExtension = e,
                      !.IsHeuristicallyCacheableStatusCode = h,
                      !.Private = p,
                      !.IgnoreRequestDirectiveNoStore = g] :
     m \in {NilHook, Hook({"POST"})},
     u \in {NilHook, Hook({StatusPartialContent})},
     e \in {NilHook, Hook({200})},
     h \in {NilHook, Hook({201})},
     p \in BOOLEAN, g \in BOOLEAN}

HookRequests ==
  {[Method |-> m,
    Header |-> ("Authorization" :> a @@ "Cache-Control" :> cc)] :
     m \in {"GET", "POST"},
     a \in {<<>>, <<"Basic dXNlcg==">>},
     cc \in {<<>>, <<S_no_store>>}}

HookResponses ==
  {[StatusCode |-> s,
    Header |-> ("Cache-Control" :> cc @@ "Expires" :> e)] :
     s \in {199, 200, 201, StatusPartialContent},
     cc \in {<<>>, <<S_public>>, <<S_private>>, <<S_no_store>>, <<S_must_understand>>,
             <<S_max_age \o <<"=", "1">>>>, <<S_s_maxage \o <<"=", "1">>>>},
     e \in {<<>>, <<"Wed, 21 Oct 2015 07:28:00 GMT">>, <<"Mon, 01 Jan 0001 00:00:00 GMT">>}}

\* the calls that run while the program assigns the package variable
RaceConfigs ==
  {ZeroConfig, [ZeroConfig EXCEPT !.IsHeuristicallyCacheableStatusCode = Hook({201})]}

RaceResponses ==
  {PlainResponse, [PlainResponse EXCEPT !.StatusCode = 201],
   [PlainResponse EXCEPT !.Header["Cache-Control"] = <<S_public>>]}

\* the place of a call that is not made
NoCall == Call(ZeroConfig, PlainRequest, PlainResponse, "idle")

\* ------------------------------------------------------------------------
\* State
\* ------------------------------------------------------------------------

VARIABLES
  input,      \* Tokenize: the string s being scanned
  pos,        \* Tokenize: the loop index i
  textStart,  \* Tokenize: start of the open unquoted text run, or -1
  yielded,    \* Tokenize: the tokens yielded so far
  tokPc,      \* Tokenize: "scan" (in the loop), "done" (returned), "idle"
  cfg,        \* the Config CanStore is called on
  req,        \* the Request given to CanStore
  resp,       \* the Response given to CanStore
  result,     \* what CanStore returned (meaningful when storePc = "returned")
  setupOps,   \* how many fields and header lines have been set
  storePc,    \* "setup" (building cfg, req, resp), "returned", "idle"
  parseInput, \* Parse: the string s being parsed
  parsePos,   \* Parse: how many tokens of Tokenize(s) the loop has consumed
  parseState, \* Parse: state, name, value, lastToken and the directives yielded
  parsePc,    \* Parse: "loop" (in the loop), "done" (returned), "idle"
  variant,    \* classification: "request" or "response"
  segments,   \* classification: the directives the header is written from
  header,     \* classification: the header string given to the function
  classified, \* classification: what the function returned, as [c, errs]
  clsPc,      \* classification: "ready" (not called), "returned", "idle"
  ageInput,   \* ParseAge: the string s
  ageResult,  \* ParseAge: what it returned, as [dur, err]
  deltaSeconds, \* ParseAge: its locals d, err, as parseDeltaSeconds returned them
  agePc,      \* ParseAge: "ready" (not called), "returned", "idle"
  rmConfig,   \* RemoveUnstorableHeaders: the Config it is called on
  rmOriginal, \* RemoveUnstorableHeaders: the header map as it was given
  headers,    \* RemoveUnstorableHeaders: the header map
  rmPc,       \* RemoveUnstorableHeaders: "ready", "returned", "idle"
  calls,      \* CanStore step by step: the calls, each with its locals
  statusCodes, \* the package variable HeuristicallyCacheableStatusCodes
  writer,     \* the assignment to the package variable that is under way
  stopAfter   \* the consumer of Tokenize or Parse: its yield callback returns
              \* false at this many elements

tokVars == <<input, pos, textStart, yielded, tokPc>>

storeVars == <<cfg, req, resp, result, setupOps, storePc>>

parseVars == <<parseInput, parsePos, parseState, parsePc>>

clsVars == <<variant, segments, header, classified, clsPc>>

ageVars == <<ageInput, ageResult, deltaSeconds, agePc>>

\* the variables of the machines defined after the first four
rmVars == <<rmConfig, rmOriginal, headers, rmPc>>

callVars == <<calls, statusCodes, writer>>

moreVars == <<ageVars, rmVars, callVars, stopAfter>>

vars ==
  <<input, pos, textStart, yielded, tokPc, cfg, req, resp, result, setupOps, storePc,
    parseInput, parsePos, parseState, parsePc,
    variant, segments, header, classified, clsPc,
    ageInput, ageResult, deltaSeconds, agePc,
    rmConfig, rmOriginal, headers, rmPc,
    calls, statusCodes, writer, stopAfter>>

TokIdle ==
  /\ input = <<>>
  /\ pos = 0
  /\ textStart = -1
  /\ yielded = <<>>
  /\ tokPc = "idle"

ParseIdle ==
  /\ parseInput = <<>>
  /\ parsePos = 0
  /\ parseState = ParseStart
  /\ parsePc = "idle"

ClsIdle ==
  /\ variant = "request"
  /\ segments = <<>>
  /\ header = <<>>
  /\ classified = [c |-> ZeroRequestDirectives, errs |-> <<>>]
  /\ clsPc = "idle"

AgeIdle ==
  /\ ageInput = <<>>
  /\ ageResult = [dur |-> 0, err |-> NoError]
  /\ deltaSeconds = [d |-> 0, err |-> NoError]
  /\ agePc = "idle"

RmIdle ==
  /\ rmConfig = ZeroConfig
  /\ rmOriginal = <<>>
  /\ headers = <<>>
  /\ rmPc = "idle"

CallIdle ==
  /\ calls = [i \in Calls |-> NoCall]
  /\ statusCodes = HeuristicallyCacheableStatusCodes
  /\ writer = [pc |-> "idle", value |-> <<>>, writes |-> 0]

\* the consumer of the other machines never stops
LazyIdle == stopAfter = 0

MoreIdle == AgeIdle /\ RmIdle /\ CallIdle /\ LazyIdle

StoreIdle ==
  /\ cfg = ZeroConfig
  /\ req = PlainRequest
  /\ resp = PlainResponse
  /\ result = FALSE
  /\ setupOps = 0
  /\ storePc = "idle"

\* ------------------------------------------------------------------------
\* CanStore, called on a configuration, request and response built field by
\* field: the cache is configured, then a request is made, then its response
\* arrives
\* ------------------------------------------------------------------------

Init ==
  /\ TokIdle
  /\ ParseIdle
  /\ ClsIdle
  /\ MoreIdle
  /\ cfg = ZeroConfig
  /\ req = PlainRequest
  /\ resp = PlainResponse
  /\ result = FALSE
  /\ setupOps = 0
  /\ storePc = "setup"

CanSetup == storePc = "setup" /\ setupOps < MaxSetup

Configuring == CanSetup /\ req = PlainRequest /\ resp = PlainResponse

Requesting == CanSetup /\ resp = PlainResponse

SetupDone == setupOps' = setupOps + 1 /\ UNCHANGED <<result, storePc>> /\ UNCHANGED <<tokVars, parseVars, clsVars, moreVars>>

SetSupportedRequestMethod ==
  /\ Configuring
  /\ cfg.SupportedRequestMethod.isNil
  /\ \E h \in MethodHooks : cfg' = [cfg EXCEPT !.SupportedRequestMethod = h]
  /\ UNCHANGED <<req, resp>>
  /\ SetupDone

SetCanUnderstandResponseCode ==
  /\ Configuring
  /\ cfg.CanUnderstandResponseCode.isNil
  /\ \E h \in UnderstandHooks : cfg' = [cfg EXCEPT !.CanUnderstandResponseCode = h]
  /\ UNCHANGED <<req, resp>>
  /\ SetupDone

SetCacheableByExtension ==
  /\ Configuring
  /\ cfg.CacheableByExtension.isNil
  /\ \E h \in ExtensionHooks : cfg' = [cfg EXCEPT !.CacheableByExtension = h]
  /\ UNCHANGED <<req, resp>>
  /\ SetupDone

SetIsHeuristicallyCacheableStatusCode ==
  /\ Configuring
  /\ cfg.IsHeuristicallyCacheableStatusCode.isNil
  /\ \E h \in HeuristicHooks :
       cfg' = [cfg EXCEPT !.IsHeuristicallyCacheableStatusCode = h]
  /\ UNCHANGED <<req, resp>>
  /\ SetupDone

SetIgnoreRequestDirectiveNoStore ==
  /\ Configuring
  /\ ~cfg.IgnoreRequestDirectiveNoStore
  /\ cfg' = [cfg EXCEPT !.IgnoreRequestDirectiveNoStore = TRUE]
  /\ UNCHANGED <<req, resp>>
  /\ SetupDone

SetPrivate ==
  /\ Configuring
  /\ ~cfg.Private
  /\ cfg' = [cfg EXCEPT !.Private = TRUE]
  /\ UNCHANGED <<req, resp>>
  /\ SetupDone

SetRespectPrivateHeaders ==
  /\ Configuring
  /\ ~cfg.RespectPrivateHeaders
  /\ cfg' = [cfg EXCEPT !.RespectPrivateHeaders = TRUE]
  /\ UNCHANGED <<req, resp>>
  /\ SetupDone

SetMethod ==
  /\ Requesting
  /\ req.Method = "GET"
  /\ \E m \in Methods \ {"GET"} : req' = [req EXCEPT !.Method = m]
  /\ UNCHANGED <<cfg, resp>>
  /\ SetupDone

AddAuthorization ==
  /\ Requesting
  /\ \E v \in AuthorizationValues :
       req' = [req EXCEPT !.Header["Authorization"] = Append(@, v)]
  /\ UNCHANGED <<cfg, resp>>
  /\ SetupDone

AddRequestCacheControl ==
  /\ Requesting
  /\ \E line \in RequestLines :
       req' = [req EXCEPT !.Header["Cache-Control"] = Append(@, line)]
  /\ UNCHANGED <<cfg, resp>>
  /\ SetupDone

SetStatusCode ==
  /\ CanSetup
  /\ resp = PlainResponse
  /\ \E code \in StatusCodes \ {200} : resp' = [resp EXCEPT !.StatusCode = code]
  /\ UNCHANGED <<cfg, req>>
  /\ SetupDone

AddExpires ==
  /\ CanSetup
  /\ \E v \in ExpiresValues :
       resp' = [resp EXCEPT !.Header["Expires"] = Append(@, v)]
  /\ UNCHANGED <<cfg, req>>
  /\ SetupDone

AddResponseCacheControl ==
  /\ CanSetup
  /\ \E line \in ResponseLines :
       resp' = [resp EXCEPT !.Header["Cache-Control"] = Append(@, line)]
  /\ UNCHANGED <<cfg, req>>
  /\ SetupDone

\* the call c.CanStore(req, resp)
CallCanStore ==
  /\ storePc = "setup"
  /\ result' = CanStore(cfg, req, resp)
  /\ storePc' = "returned"
  /\ UNCHANGED <<cfg, req, resp, setupOps>>
  /\ UNCHANGED <<tokVars, parseVars, clsVars, moreVars>>

Next ==
  \/ SetSupportedRequestMethod
  \/ SetCanUnderstandResponseCode
  \/ SetCacheableByExtension
  \/ SetIsHeuristicallyCacheableStatusCode
  \/ SetIgnoreRequestDirectiveNoStore
  \/ SetPrivate
  \/ SetRespectPrivateHeaders
  \/ SetMethod
  \/ AddAuthorization
  \/ AddRequestCacheControl
  \/ SetStatusCode
  \/ AddExpires
  \/ AddResponseCacheControl
  \/ CallCanStore

Spec == Init /\ [][Next]_vars

\* ------------------------------------------------------------------------
\* Tokenize, one loop iteration per step
\* ------------------------------------------------------------------------

TokState == [i |-> pos, textStart |-> textStart, out |-> yielded]

TokSet(st) ==
  /\ pos' = st.i
  /\ textStart' = st.textStart
  /\ yielded' = st.out

TokInit ==
  /\ input \in StringsUpTo(TokAlphabet, MaxLen)
  /\ pos = 0
  /\ textStart = -1
  /\ yielded = <<>>
  /\ tokPc = "scan"
  /\ StoreIdle
  /\ ParseIdle
  /\ ClsIdle
  /\ MoreIdle

TokScanning == tokPc = "scan" /\ pos < Len(input)

ScanSpace ==
  /\ TokScanning
  /\ TokCase(input, TokState) = "space"
  /\ TokSet(StepSpace(input, TokState))
  /\ UNCHANGED <<input, tokPc>>
  /\ UNCHANGED <<storeVars, parseVars, clsVars, moreVars>>

ScanComma ==
  /\ TokScanning
  /\ TokCase(input, TokState) = "comma"
  /\ TokSet(StepComma(input, TokState))
  /\ UNCHANGED <<input, tokPc>>
  /\ UNCHANGED <<storeVars, parseVars, clsVars, moreVars>>

ScanEquals ==
  /\ TokScanning
  /\ TokCase(input, TokState) = "equals"
  /\ TokSet(StepEquals(input, TokState))
  /\ UNCHANGED <<input, tokPc>>
  /\ UNCHANGED <<storeVars, parseVars, clsVars, moreVars>>

ScanQuote ==
  /\ TokScanning
  /\ TokCase(input, TokState) = "quote"
  /\ TokSet(StepQuote(input, TokState))
  /\ UNCHANGED <<input, tokPc>>
  /\ UNCHANGED <<storeVars, parseVars, clsVars, moreVars>>

ScanText ==
  /\ TokScanning
  /\ TokCase(input, TokState) = "text"
  /\ TokSet(StepText(input, TokState))
  /\ UNCHANGED <<input, tokPc>>
  /\ UNCHANGED <<storeVars, parseVars, clsVars, moreVars>>

ScanEnd ==
  /\ tokPc = "scan"
  /\ pos >= Len(input)
  /\ TokSet(TokFinish(input, TokState))
  /\ tokPc' = "done"
  /\ UNCHANGED input
  /\ UNCHANGED <<storeVars, parseVars, clsVars, moreVars>>

TokNext == ScanSpace \/ ScanComma \/ ScanEquals \/ ScanQuote \/ ScanText \/ ScanEnd

TokSpec == TokInit /\ [][TokNext]_vars

\* the scan of an input, every loop iteration of which is eventually taken
TermInit ==
  /\ input \in StringsUpTo(TokAlphabet, MaxTermLen)
  /\ pos = 0
  /\ textStart = -1
  /\ yielded = <<>>
  /\ tokPc = "scan"
  /\ StoreIdle
  /\ ParseIdle
  /\ ClsIdle
  /\ MoreIdle

TermSpec == TermInit /\ [][TokNext]_vars /\ WF_vars(TokNext)

\* ------------------------------------------------------------------------
\* Parse, one iteration of the loop over the tokens per step
\* ------------------------------------------------------------------------

ParseInit ==
  /\ parseInput \in StringsUpTo(ParseAlphabet, MaxParseLen)
  /\ parsePos = 0
  /\ parseState = ParseStart
  /\ parsePc = "loop"
  /\ TokIdle
  /\ StoreIdle
  /\ ClsIdle
  /\ MoreIdle

ParseLooping == parsePc = "loop" /\ parsePos < Len(Tokenize(parseInput))

\* the token the loop receives next
ParseNextToken == Tokenize(parseInput)[parsePos + 1]

ParseConsume ==
  /\ parseState' = ParseToken(parseState, ParseNextToken)
  /\ parsePos' = parsePos + 1
  /\ UNCHANGED <<parseInput, parsePc>>
  /\ UNCHANGED <<tokVars, storeVars, clsVars, moreVars>>

ParseComma == ParseLooping /\ ParseNextToken.Type = TokenTypeComma /\ ParseConsume

ParseEquals == ParseLooping /\ ParseNextToken.Type = TokenTypeEquals /\ ParseConsume

ParseSpace == ParseLooping /\ ParseNextToken.Type = TokenTypeSpace /\ ParseConsume

ParseText == ParseLooping /\ ParseNextToken.Type = TokenTypeText /\ ParseConsume

ParseEnd ==
  /\ parsePc = "loop"
  /\ parsePos >= Len(Tokenize(parseInput))
  /\ parseState' = [parseState EXCEPT !.out = ParseFinish(parseState)]
  /\ parsePc' = "done"
  /\ UNCHANGED <<parseInput, parsePos>>
  /\ UNCHANGED <<tokVars, storeVars, clsVars, moreVars>>

ParseNext == ParseComma \/ ParseEquals \/ ParseSpace \/ ParseText \/ ParseEnd

ParseSpec == ParseInit /\ [][ParseNext]_vars

\* the example of the doc comment of Parse:
\* directive1=value "with" space,directive2
DocExample ==
  <<"d", "i", "r", "e", "c", "t", "i", "v", "e", "1", "=", "v", "a", "l",
    "u", "e", " ", "\"", "w", "i", "t", "h", "\"", " ", "s", "p", "a",
    "c", "e", ",", "d", "i", "r", "e", "c", "t", "i", "v", "e", "2">>

\* the example and what a reader of a stream has of it at any moment
DocInputs == {SubSeq(DocExample, 1, n) : n \in 0..Len(DocExample)}

\* Parse called on the example of its doc comment, or on a prefix of it
DocInit ==
  /\ parseInput \in DocInputs
  /\ parsePos = 0
  /\ parseState = ParseStart
  /\ parsePc = "loop"
  /\ TokIdle
  /\ StoreIdle
  /\ ClsIdle
  /\ MoreIdle

DocSpec == DocInit /\ [][ParseNext]_vars

\* ------------------------------------------------------------------------
\* ParseRequestDirectives and ParseResponseDirectives, called on a header
\* ------------------------------------------------------------------------

ClsInit ==
  /\ variant \in {"request", "response"}
  /\ segments \in StringsUpTo(IF variant = "request" THEN RequestSegments
                                                     ELSE ResponseSegments,
                              MaxDirectives)
  /\ header = HeaderOf(segments)
  /\ classified = [c |-> IF variant = "request" THEN ZeroRequestDirectives
                                                ELSE ZeroResponseDirectives,
                   errs |-> <<>>]
  /\ clsPc = "ready"
  /\ TokIdle
  /\ StoreIdle
  /\ ParseIdle
  /\ MoreIdle

CallParseRequestDirectives ==
  /\ clsPc = "ready"
  /\ variant = "request"
  /\ classified' = ParseRequestDirectives(header)
  /\ clsPc' = "returned"
  /\ UNCHANGED <<variant, segments, header>>
  /\ UNCHANGED <<tokVars, storeVars, parseVars, moreVars>>

CallParseResponseDirectives ==
  /\ clsPc = "ready"
  /\ variant = "response"
  /\ classified' = ParseResponseDirectives(header)
  /\ clsPc' = "returned"
  /\ UNCHANGED <<variant, segments, header>>
  /\ UNCHANGED <<tokVars, storeVars, parseVars, moreVars>>

ClsNext == CallParseRequestDirectives \/ CallParseResponseDirectives

ClsSpec == ClsInit /\ [][ClsNext]_vars

\* the same calls on the headers that are rendered and classified again
RenderInit ==
  /\ variant \in {"request", "response"}
  /\ segments \in StringsUpTo(RenderedSegments(variant), MaxDirectives)
  /\ header = HeaderOf(segments)
  /\ classified = [c |-> IF variant = "request" THEN ZeroRequestDirectives
                                                ELSE ZeroResponseDirectives,
                   errs |-> <<>>]
  /\ clsPc = "ready"
  /\ TokIdle
  /\ StoreIdle
  /\ ParseIdle
  /\ MoreIdle

RenderSpec == RenderInit /\ [][ClsNext]_vars

\* ------------------------------------------------------------------------
\* ParseAge, called on a string
\* ------------------------------------------------------------------------

AgeInit ==
  /\ ageInput \in StringsUpTo(AgeAlphabet, MaxAgeLen)
  /\ ageResult = [dur |-> 0, err |-> NoError]
  /\ deltaSeconds = [d |-> 0, err |-> NoError]
  /\ agePc = "ready"
  /\ TokIdle
  /\ StoreIdle
  /\ ParseIdle
  /\ ClsIdle
  /\ RmIdle
  /\ CallIdle
  /\ LazyIdle

CallParseAge ==
  /\ agePc = "ready"
  /\ deltaSeconds' = parseDeltaSeconds(ageInput)
  /\ ageResult' = ParseAge(ageInput)
  /\ agePc' = "returned"
  /\ UNCHANGED ageInput
  /\ UNCHANGED <<tokVars, storeVars, parseVars, clsVars, rmVars, callVars, stopAfter>>

AgeNext == CallParseAge

AgeSpec == AgeInit /\ [][AgeNext]_vars

\* ------------------------------------------------------------------------
\* RemoveUnstorableHeaders, called on a header map
\* ------------------------------------------------------------------------

RmInit ==
  /\ rmConfig \in {[ZeroConfig EXCEPT !.RespectPrivateHeaders = r, !.StoreProxyHeaders = s] :
                     r \in BOOLEAN, s \in BOOLEAN}
  /\ rmOriginal \in HeaderMaps
  /\ headers = rmOriginal
  /\ rmPc = "ready"
  /\ TokIdle
  /\ StoreIdle
  /\ ParseIdle
  /\ ClsIdle
  /\ AgeIdle
  /\ CallIdle
  /\ LazyIdle

CallRemoveUnstorableHeaders ==
  /\ rmPc = "ready"
  /\ headers' = RemoveUnstorableHeaders(rmConfig, headers)
  /\ rmPc' = "returned"
  /\ UNCHANGED <<rmConfig, rmOriginal>>
  /\ UNCHANGED <<tokVars, storeVars, parseVars, clsVars, ageVars, callVars, stopAfter>>

RmNext == CallRemoveUnstorableHeaders

RmSpec == RmInit /\ [][RmNext]_vars

\* ------------------------------------------------------------------------
\* A cache that asks CanStore about a response and, when the answer is true,
\* calls RemoveUnstorableHeaders on the response's headers
\* ------------------------------------------------------------------------

\* a header value as the string time.Parse receives
RECURSIVE TextOf(_)
TextOf(s) == IF s = <<>> THEN "" ELSE Head(s) \o TextOf(Tail(s))

\* the values of a header as strings
TextsOf(values) == [k \in DOMAIN values |-> TextOf(values[k])]

\* the 200 response that carries the header map
ResponseOf(hs) ==
  [StatusCode |-> 200,
   Header |-> [n \in {"Cache-Control", "Expires"} |->
                 IF n = "Cache-Control" THEN HeaderValues(hs, H_Cache_Control)
                                        ELSE TextsOf(HeaderValues(hs, H_Expires))]]

CacheInit ==
  /\ rmConfig \in {[ZeroConfig EXCEPT !.RespectPrivateHeaders = r, !.StoreProxyHeaders = s] :
                     r \in BOOLEAN, s \in BOOLEAN}
  /\ rmOriginal \in HeaderMaps
  /\ headers = rmOriginal
  /\ rmPc = "received"
  /\ TokIdle
  /\ StoreIdle
  /\ ParseIdle
  /\ ClsIdle
  /\ AgeIdle
  /\ CallIdle
  /\ LazyIdle

\* the call c.CanStore(req, resp) on the received response
DecideStore ==
  /\ rmPc = "received"
  /\ result' = CanStore(rmConfig, PlainRequest, ResponseOf(headers))
  /\ rmPc' = IF result' THEN "ready" ELSE "refused"
  /\ UNCHANGED <<cfg, req, resp, setupOps, storePc>>
  /\ UNCHANGED <<rmConfig, rmOriginal, headers>>
  /\ UNCHANGED <<tokVars, parseVars, clsVars, ageVars, callVars, stopAfter>>

CacheNext == DecideStore \/ CallRemoveUnstorableHeaders

CacheSpec == CacheInit /\ [][CacheNext]_vars

\* ------------------------------------------------------------------------
\* CanStore, step by step: one call whose hooks are observed, or calls that
\* run while the program assigns HeuristicallyCacheableStatusCodes
\* ------------------------------------------------------------------------

HookInit ==
  /\ calls \in {[i \in Calls |-> IF i = 1 THEN Call(c, rq, rs, "method")
                                  ELSE NoCall] :
                  c \in HookConfigs, rq \in HookRequests, rs \in HookResponses}
  /\ statusCodes = HeuristicallyCacheableStatusCodes
  /\ writer = [pc |-> "idle", value |-> <<>>, writes |-> 0]
  /\ TokIdle
  /\ StoreIdle
  /\ ParseIdle
  /\ ClsIdle
  /\ AgeIdle
  /\ RmIdle
  /\ LazyIdle

RaceInit ==
  /\ calls \in [Calls -> {Call(c, PlainRequest, rs, "method") :
                            c \in RaceConfigs, rs \in RaceResponses}]
  /\ statusCodes = HeuristicallyCacheableStatusCodes
  /\ writer = [pc |-> "idle", value |-> <<>>, writes |-> 0]
  /\ TokIdle
  /\ StoreIdle
  /\ ParseIdle
  /\ ClsIdle
  /\ AgeIdle
  /\ RmIdle
  /\ LazyIdle

\* the call i takes the step that its position names
Advance(i, pc, next) ==
  /\ calls[i].pc = pc
  /\ calls' = [calls EXCEPT ![i] = next]
  /\ UNCHANGED <<statusCodes, writer>>
  /\ UNCHANGED <<tokVars, storeVars, parseVars, clsVars, ageVars, rmVars, stopAfter>>

CheckMethod == \E i \in Calls : Advance(i, "method", MethodStep(calls[i]))

CheckFinal == \E i \in Calls : Advance(i, "final", FinalStep(calls[i]))

CheckUnderstand == \E i \in Calls : Advance(i, "understand", UnderstandStep(calls[i]))

CheckNoStore == \E i \in Calls : Advance(i, "nostore", NoStoreStep(calls[i]))

CheckPrivate == \E i \in Calls : Advance(i, "private", PrivateStep(calls[i]))

CheckAuthorization ==
  \E i \in Calls : Advance(i, "authorization", AuthorizationStep(calls[i]))

CheckFreshness == \E i \in Calls : Advance(i, "freshness", FreshnessStep(calls[i]))

CheckExtension == \E i \in Calls : Advance(i, "extension", ExtensionStep(calls[i]))

\* the read of HeuristicallyCacheableStatusCodes is not synchronized: while an
\* assignment is under way it gives any of the racing reads
CheckHeuristic ==
  \E i \in Calls :
    \E codes \in (IF writer.pc = "writing" THEN RacingReads(statusCodes, writer.value)
                  ELSE {statusCodes}) :
      Advance(i, "heuristic", HeuristicStep(calls[i], codes))

CheckRequest == \E i \in Calls : Advance(i, "request", RequestStep(calls[i]))

\* the program starts an assignment to HeuristicallyCacheableStatusCodes
BeginAssignStatusCodes ==
  /\ writer.pc = "idle"
  /\ writer.writes < MaxWrites
  /\ \E v \in StatusCodeTables :
       writer' = [pc |-> "writing", value |-> v, writes |-> writer.writes + 1]
  /\ UNCHANGED <<calls, statusCodes>>
  /\ UNCHANGED <<tokVars, storeVars, parseVars, clsVars, ageVars, rmVars, stopAfter>>

\* the assignment is complete
EndAssignStatusCodes ==
  /\ writer.pc = "writing"
  /\ statusCodes' = writer.value
  /\ writer' = [writer EXCEPT !.pc = "idle"]
  /\ UNCHANGED calls
  /\ UNCHANGED <<tokVars, storeVars, parseVars, clsVars, ageVars, rmVars, stopAfter>>

HookNext ==
  \/ CheckMethod
  \/ CheckFinal
  \/ CheckUnderstand
  \/ CheckNoStore
  \/ CheckPrivate
  \/ CheckAuthorization
  \/ CheckFreshness
  \/ CheckExtension
  \/ CheckHeuristic
  \/ CheckRequest

HookSpec == HookInit /\ [][HookNext]_vars

RaceNext ==
  \/ HookNext
  \/ BeginAssignStatusCodes
  \/ EndAssignStatusCodes

RaceSpec == RaceInit /\ [][RaceNext]_vars

\* ------------------------------------------------------------------------
\* Tokenize and Parse under a consumer whose yield callback returns false
\* ------------------------------------------------------------------------

LazyInit ==
  /\ stopAfter \in 1..MaxStop
  /\ \/ /\ input \in StringsUpTo(LazyAlphabet, MaxLazyLen)
        /\ pos = 0
        /\ textStart = -1
        /\ yielded = <<>>
        /\ tokPc = "scan"
        /\ ParseIdle
     \/ /\ parseInput \in StringsUpTo(LazyAlphabet, MaxLazyLen)
        /\ parsePos = 0
        /\ parseState = ParseStart
        /\ parsePc = "loop"
        /\ TokIdle
  /\ StoreIdle
  /\ ClsIdle
  /\ AgeIdle
  /\ RmIdle
  /\ CallIdle

\* the tokens of one step of Tokenize go to the consumer one by one
LazyDeliverTokens(st, pcAfter) ==
  LET y == YieldUntilStopped(st.out, stopAfter)
  IN /\ yielded' = y.out
     /\ IF y.stopped
          THEN tokPc' = "stopped" /\ UNCHANGED <<pos, textStart>>
          ELSE tokPc' = pcAfter /\ pos' = st.i /\ textStart' = st.textStart
     /\ UNCHANGED <<input, stopAfter>>
     /\ UNCHANGED <<storeVars, parseVars, clsVars, ageVars, rmVars, callVars>>

LazyScan ==
  /\ stopAfter > 0
  /\ TokScanning
  /\ LazyDeliverTokens(TokStep(input, TokState), "scan")

LazyScanEnd ==
  /\ stopAfter > 0
  /\ tokPc = "scan"
  /\ pos >= Len(input)
  /\ LazyDeliverTokens(TokFinish(input, TokState), "done")

\* the directives of one step of Parse go to the consumer
LazyDeliverDirectives(out, p, pcAfter) ==
  LET y == YieldUntilStopped(out, stopAfter)
  IN /\ parseState' = [p EXCEPT !.out = y.out]
     /\ parsePc' = IF y.stopped THEN "stopped" ELSE pcAfter
     /\ UNCHANGED <<parseInput, stopAfter>>
     /\ UNCHANGED <<storeVars, tokVars, clsVars, ageVars, rmVars, callVars>>

LazyParse ==
  /\ stopAfter > 0
  /\ ParseLooping
  /\ parsePos' = parsePos + 1
  /\ LET p == ParseToken(parseState, ParseNextToken)
     IN LazyDeliverDirectives(p.out, p, "loop")

LazyParseEnd ==
  /\ stopAfter > 0
  /\ parsePc = "loop"
  /\ parsePos >= Len(Tokenize(parseInput))
  /\ UNCHANGED parsePos
  /\ LazyDeliverDirectives(ParseFinish(parseState), parseState, "done")

LazyNext == LazyScan \/ LazyScanEnd \/ LazyParse \/ LazyParseEnd

LazySpec == LazyInit /\ [][LazyNext]_vars

\* ------------------------------------------------------------------------
\* Properties of CanStore
\* ------------------------------------------------------------------------

Returned == storePc = "returned"

\* the value of a byte with the upper-case letters folded onto the lower-case
FoldedByte(c) == IF Byte(c) >= 65 /\ Byte(c) <= 90 THEN Byte(c) + 32 ELSE Byte(c)

\* the names a and b are equal but for the case of their letters
SameName(a, b) ==
  /\ Len(a) = Len(b)
  /\ \A k \in 1..Len(a) : FoldedByte(a[k]) = FoldedByte(b[k])

\* the Cache-Control lines carry a directive of that name
Carries(lines, name) ==
  \E d \in Range(Parse(Join(lines, <<",", " ">>))) : SameName(d.Name, name)

ResponseCarries(name) == Carries(resp.Header["Cache-Control"], name)

RequestCarries(name) == Carries(req.Header["Cache-Control"], name)

\* the response directives as classification leaves them
Classified == ResponseDirectives(resp).c

PrivateList == Classified.PrivateHeaders.elems

\* the Expires header is present and parses
ExpiresParses ==
  /\ Len(resp.Header["Expires"]) > 0
  /\ ~ParseExpires(JoinText(resp.Header["Expires"], ", ")).err

Shared == ~cfg.Private

\* the preconditions, as the claims word them
MethodSupported ==
  IF cfg.SupportedRequestMethod.isNil
    THEN req.Method \in {"GET", "HEAD", "QUERY"}
    ELSE req.Method \in cfg.SupportedRequestMethod.accepts

StatusFinal == resp.StatusCode >= 200

NeedsUnderstanding ==
  resp.StatusCode \in {206, 304} \/ ResponseCarries(S_must_understand)

StatusUnderstood ==
  /\ ~cfg.CanUnderstandResponseCode.isNil
  /\ resp.StatusCode \in cfg.CanUnderstandResponseCode.accepts

PrivateVeto ==
  /\ Shared
  /\ ResponseCarries(S_private)
  /\ (~cfg.RespectPrivateHeaders \/ PrivateList = <<>>)

LiftsAuthorizationVeto ==
  \/ ResponseCarries(S_must_revalidate)
  \/ ResponseCarries(S_public)
  \/ Classified.SMaxAge > 0

AuthorizationVeto ==
  Shared /\ Len(req.Header["Authorization"]) > 0 /\ ~LiftsAuthorizationVeto

HeuristicallyCacheable ==
  IF cfg.IsHeuristicallyCacheableStatusCode.isNil
    THEN resp.StatusCode \in Range(HeuristicallyCacheableStatusCodes)
    ELSE resp.StatusCode \in cfg.IsHeuristicallyCacheableStatusCode.accepts

ExtensionAllows ==
  /\ ~cfg.CacheableByExtension.isNil
  /\ resp.StatusCode \in cfg.CacheableByExtension.accepts

FreshnessSignal ==
  \/ HeuristicallyCacheable
  \/ ExtensionAllows
  \/ ExpiresParses
  \/ ResponseCarries(S_public)
  \/ cfg.Private /\ ResponseCarries(S_private)
  \/ Classified.MaxAge > 0
  \/ Shared /\ Classified.SMaxAge > 0

RequestNoStoreRespected ==
  cfg.IgnoreRequestDirectiveNoStore \/ ~RequestCarries(S_no_store)

EightPreconditions ==
  /\ MethodSupported
  /\ StatusFinal
  /\ NeedsUnderstanding => StatusUnderstood
  /\ ~ResponseCarries(S_no_store)
  /\ ~PrivateVeto
  /\ ~AuthorizationVeto
  /\ FreshnessSignal
  /\ RequestNoStoreRespected

\* C1: CanStore returns true if and only if all eight preconditions hold
\* (method supported, status >= 200, status understood where required, no
\* response no-store, no private veto, no Authorization veto, a freshness
\* signal, request no-store absent or ignored); nothing else makes it false.
C1_TrueIffEightPreconditions == Returned => (result <=> EightPreconditions)

\* the Expires header parses to the zero time: the one case in which the
\* code's IsZero test differs from "Expires is present and parses"
ExpiresIsZeroTime ==
  ExpiresParses /\ IsZero(ParseExpires(JoinText(resp.Header["Expires"], ", ")).t)

\* apart from an Expires header giving the zero time, the eight preconditions
\* decide the result
TrueIffEightPreconditionsButZeroExpires ==
  (Returned /\ ~ExpiresIsZeroTime) => (result <=> EightPreconditions)

\* C2: CanStore returns false for every response whose Cache-Control carries
\* no-store, in shared and private mode, under every configuration and whatever
\* other directives the response carries.
C2_NoStoreNeverStored == (Returned /\ result) => ~ResponseCarries(S_no_store)

\* no-store next to public, with an extension hook that allows everything
C2_Witness ==
  /\ Returned
  /\ resp.Header["Cache-Control"] = <<S_public, S_no_store>>
  /\ cfg.CacheableByExtension = Hook(StatusCodes)
  /\ ~result

\* the Cache-Control lines without those that are a private directive
RECURSIVE WithoutPrivate(_)
WithoutPrivate(lines) ==
  IF lines = <<>> THEN <<>>
  ELSE IF Carries(<<Head(lines)>>, S_private) THEN WithoutPrivate(Tail(lines))
  ELSE <<Head(lines)>> \o WithoutPrivate(Tail(lines))

\* shared mode: private forbids storing unless RespectPrivateHeaders is set and
\* the header-name list left by classification is non-empty
SharedPrivateVeto == (Returned /\ result) => ~PrivateVeto

\* private mode: the private directive never causes a false result, i.e. the
\* response without its private directives is not storable either
PrivateModePrivateHarmless ==
  (Returned /\ cfg.Private /\ ~result) =>
    ~CanStore(cfg, req,
              [resp EXCEPT !.Header["Cache-Control"] = WithoutPrivate(@)])

\* a response whose only header is Cache-Control: private, to a request with a
\* supported method, with a final status other than 206 and 304
OnlyPrivate ==
  /\ resp.Header["Cache-Control"] = <<S_private>>
  /\ resp.Header["Expires"] = <<>>
  /\ MethodSupported
  /\ StatusFinal
  /\ resp.StatusCode \notin {206, 304}

\* C3 as claimed: in shared mode private forbids storing unless
\* RespectPrivateHeaders is set and the list is non-empty; in private mode
\* private never causes a false result and a response with only `private`
\* (supported method, final status other than 206/304) is storable.
C3_Original ==
  /\ SharedPrivateVeto
  /\ PrivateModePrivateHarmless
  /\ (Returned /\ cfg.Private /\ OnlyPrivate) => result

\* C3, amended: as claimed, but the response with only `private` is storable
\* in private mode provided the request carries no no-store directive or
\* IgnoreRequestDirectiveNoStore is set.
C3_PrivateDirective ==
  /\ SharedPrivateVeto
  /\ PrivateModePrivateHarmless
  /\ (Returned /\ cfg.Private /\ OnlyPrivate /\ RequestNoStoreRespected) => result

\* shared cache with RespectPrivateHeaders: private=a (stored headers apart),
\* then a later bare private, which clears the list
C3_Witness ==
  /\ Returned
  /\ ~cfg.Private
  /\ cfg.RespectPrivateHeaders
  /\ resp.Header["Cache-Control"] = <<S_private \o <<"=", "a">>, S_private>>
  /\ ~result

\* the request without its Authorization header
WithoutAuthorization(r) == [r EXCEPT !.Header["Authorization"] = <<>>]

\* C4: in shared mode, when the request has an Authorization header (even with
\* an empty value), CanStore returns false unless the response carries
\* must-revalidate, public or s-maxage > 0; in private mode the presence of
\* the Authorization header does not change the result.
C4_AuthorizationVeto ==
  /\ (Returned /\ result) => ~AuthorizationVeto
  /\ (Returned /\ cfg.Private) => result = CanStore(cfg, WithoutAuthorization(req), resp)

\* Authorization with an empty value, max-age and s-maxage=0: not stored by a
\* shared cache, though stored without the Authorization header
C4_Witness ==
  /\ Returned
  /\ ~cfg.Private
  /\ req.Header["Authorization"] = <<"">>
  /\ resp.Header["Cache-Control"] =
       <<S_max_age \o <<"=", "1">>, S_s_maxage \o <<"=", "0">>>>
  /\ ~result
  /\ CanStore(cfg, WithoutAuthorization(req), resp)

C6_StatusMustBeUnderstood ==
  (Returned /\ result /\ NeedsUnderstanding) => StatusUnderstood

\* must-understand with public on a 200 response, no hook configured
C6_Witness ==
  /\ Returned
  /\ cfg.CanUnderstandResponseCode.isNil
  /\ resp.StatusCode = 200
  /\ resp.Header["Cache-Control"] = <<S_must_understand, S_public>>
  /\ ~result

\* the request with other Cache-Control lines
WithRequestCacheControl(r, lines) == [r EXCEPT !.Header["Cache-Control"] = lines]

\* C7: CanStore returns false if the request's Cache-Control carries no-store
\* and IgnoreRequestDirectiveNoStore is unset, also when every other
\* precondition passes; when it is set, the request's Cache-Control header has
\* no effect on the result.
C7_RequestNoStore ==
  /\ (Returned /\ result /\ ~cfg.IgnoreRequestDirectiveNoStore)
       => ~RequestCarries(S_no_store)
  /\ (Returned /\ cfg.IgnoreRequestDirectiveNoStore) =>
       \A lines \in {<<>>} \cup {<<line>> : line \in RequestLines} :
         result = CanStore(cfg, WithRequestCacheControl(req, lines), resp)

\* request no-store is all that keeps the response from being stored
C7_Witness ==
  /\ Returned
  /\ ~cfg.IgnoreRequestDirectiveNoStore
  /\ req.Header["Cache-Control"] = <<S_no_store>>
  /\ ~result
  /\ CanStore(cfg, WithRequestCacheControl(req, <<>>), resp)
  /\ CanStore([cfg EXCEPT !.IgnoreRequestDirectiveNoStore = TRUE], req, resp)

\* the Expires header of the response is present and does not parse
ExpiresFails(rs) ==
  /\ Len(rs.Header["Expires"]) > 0
  /\ ParseExpires(JoinText(rs.Header["Expires"], ", ")).err

\* the response without its Expires header
WithoutExpires(rs) == [rs EXCEPT !.Header["Expires"] = <<>>]

\* the Cache-Control line is one directive of that name
Occurrence(line, name) ==
  Len(Parse(line)) = 1 /\ ToLower(Parse(line)[1].Name) = name

\* an occurrence whose value does not parse as delta-seconds
FailingOccurrence(line, name) ==
  Occurrence(line, name) /\ ParseAge(Parse(line)[1].Value).err # NoError

\* the response has occurrences of the directive and none of them parses
AllOccurrencesFail(rs, name) ==
  LET lines == rs.Header["Cache-Control"]
  IN /\ \E k \in DOMAIN lines : Occurrence(lines[k], name)
     /\ \A k \in DOMAIN lines : Occurrence(lines[k], name) => FailingOccurrence(lines[k], name)

\* the response without the occurrences of the directive
WithoutOccurrences(rs, name) ==
  [rs EXCEPT !.Header["Cache-Control"] = SelectSeq(@, LAMBDA line : ~Occurrence(line, name))]

\* C36: what fails to parse is treated as absent: a response whose Expires
\* header does not parse (also when it is given as several values), or whose
\* max-age or s-maxage occurrences all fail to parse, gets the CanStore
\* result of the same response without that header or those occurrences,
\* under the same config and request
C36_UnparseableIsAbsent ==
  /\ (Returned /\ ExpiresFails(resp)) =>
       result = CanStore(cfg, req, WithoutExpires(resp))
  /\ \A name \in {S_max_age, S_s_maxage} :
       (Returned /\ AllOccurrencesFail(resp, name)) =>
         result = CanStore(cfg, req, WithoutOccurrences(resp, name))

\* a 201 response with two Expires dates, which joined do not parse, was
\* refused for want of a freshness signal
C36_Witness ==
  /\ Returned
  /\ ~result
  /\ resp.StatusCode = 201
  /\ Len(resp.Header["Expires"]) = 2
  /\ ~ExpiresFirstValue(resp).err
  /\ ExpiresFails(resp)
  /\ cfg = ZeroConfig
  /\ req = PlainRequest

\* C38: if one of the response's Cache-Control lines is exactly no-store,
\* CanStore returns false whatever the other Cache-Control lines contain: no
\* content of another line hides the no-store line
C38_NoStoreLineNeverHidden ==
  (Returned /\ \E k \in DOMAIN resp.Header["Cache-Control"] :
                  resp.Header["Cache-Control"][k] = S_no_store) => ~result

\* ------------------------------------------------------------------------
\* Properties of Tokenize
\* ------------------------------------------------------------------------

\* the step-by-step scan yields what the Tokenize operator computes
TokRunAgrees == tokPc = "done" => yielded = Tokenize(input)

\* ts, in order, partition [0, n): first Start is 0, each Start is the previous
\* End, every token is non-empty, the last End is n; no token when n = 0
Partitions(ts, n) ==
  IF n = 0
    THEN ts = <<>>
    ELSE /\ ts # <<>>
         /\ ts[1].Start = 0
         /\ ts[Len(ts)].End = n
         /\ \A k \in 1..Len(ts) : ts[k].Start < ts[k].End
         /\ \A k \in 1..(Len(ts) - 1) : ts[k + 1].Start = ts[k].End

\* C8: for every input s the tokens Tokenize yields, in order, partition
\* [0, len(s)): the first starts at 0, each Start equals the previous End, every
\* token has Start < End, the last ends at len(s); the empty input yields none.
C8_TokensPartitionInput == tokPc = "done" => Partitions(yielded, Len(input))

C8_Witness ==
  /\ tokPc = "done"
  /\ input = <<"a", " ", " ", ",", "\"">>
  /\ Len(yielded) = 4
  /\ yielded[2] = Token(TokenTypeSpace, 1, 3, <<" ", " ">>)
  /\ yielded[4] = Token(TokenTypeText, 4, 5, <<"\"">>)

\* inside a quoted string opened at offset i, the byte at offset k is escaped
\* when the byte before it is a backslash that is not itself escaped
RECURSIVE Escaped(_, _, _)
Escaped(s, i, k) ==
  /\ k > i + 1
  /\ At(s, k - 1) = "\\"
  /\ ~Escaped(s, i, k - 1)

\* offsets of the unescaped double quotes after the quote opened at offset i
ClosingQuotes(s, i) ==
  {j \in (i + 1)..(Len(s) - 1) : At(s, j) = "\"" /\ ~Escaped(s, i, j)}

FirstClosingQuote(s, i) ==
  CHOOSE j \in ClosingQuotes(s, i) : \A k \in ClosingQuotes(s, i) : j <= k

\* the bytes strictly between offsets i and j without the escaping backslashes
RECURSIVE Unescaped(_, _, _, _)
Unescaped(s, i, k, j) ==
  IF k >= j
    THEN <<>>
    ELSE IF At(s, k) = "\\" /\ ~Escaped(s, i, k)
      THEN Unescaped(s, i, k + 1, j)
      ELSE <<At(s, k)>> \o Unescaped(s, i, k + 1, j)

\* the scan stands on a double quote with no text run open
QuoteOpens ==
  /\ tokPc = "scan"
  /\ pos < Len(input)
  /\ textStart = -1
  /\ At(input, pos) = "\""

\* C9: when a double quote opens where no text run is open and an unescaped
\* closing quote exists later, Tokenize yields exactly one Text token from the
\* opening quote to just past the first unescaped closing quote; its Text is the
\* content between the quotes with each escaping backslash removed and the byte
\* after it kept verbatim; the scan resumes right after the closing quote.
C9_QuotedStringToken ==
  [][(QuoteOpens /\ ClosingQuotes(input, pos) # {}) =>
       LET j == FirstClosingQuote(input, pos)
       IN /\ yielded' = Append(yielded, Token(TokenTypeText, pos, j + 1,
                                              Unescaped(input, pos, pos + 1, j)))
          /\ pos' = j + 1
          /\ textStart' = -1]_vars

\* "\"a" tokenized: one Text token a"... with the escaped quote kept
C9_Witness ==
  /\ tokPc = "done"
  /\ input = <<"\"", "a", "\\", "\"", "\"">>
  /\ yielded = <<Token(TokenTypeText, 0, 5, <<"a", "\"">>)>>

\* first offset at or after k holding a control/space, comma or equals byte,
\* or the length of s
RECURSIVE NextDelimiter(_, _)
NextDelimiter(s, k) ==
  IF k >= Len(s) THEN Len(s)
  ELSE IF isControlCharacterOrSpace(At(s, k)) \/ At(s, k) \in {",", "="} THEN k
  ELSE NextDelimiter(s, k + 1)

\* the tokens ts with their offsets moved by d
Shifted(ts, d) ==
  [k \in 1..Len(ts) |-> [ts[k] EXCEPT !.Start = @ + d, !.End = @ + d]]

Covering(ts, k) == CHOOSE t \in Range(ts) : t.Start <= k /\ k < t.End

\* the offsets of the ',' and '=' bytes of s
DelimiterOffsets(s) == {k \in 0..(Len(s) - 1) : At(s, k) \in {",", "="}}

\* the one-byte token of the delimiter at offset k
DelimiterToken(s, k) ==
  Token(IF At(s, k) = "," THEN TokenTypeComma ELSE TokenTypeEquals, k, k + 1, <<At(s, k)>>)

\* t is the token of a quoted string: from an opening quote to just past the
\* first unescaped closing quote after it
QuotedStringToken(s, t) ==
  /\ t.Type = TokenTypeText
  /\ At(s, t.Start) = "\""
  /\ ClosingQuotes(s, t.Start) # {}
  /\ t.End = FirstClosingQuote(s, t.Start) + 1

\* every ',' and every '=' byte of the input is its own one-byte Comma or
\* Equals token, wherever it occurs: no Text token covers one
C28_Original ==
  tokPc = "done" =>
    \A k \in DelimiterOffsets(input) :
      \E n \in DOMAIN yielded : yielded[n] = DelimiterToken(input, k)

\* C28: every ',' and every '=' byte of the input is its own one-byte Comma
\* or Equals token, except the ones between the quotes of a closed quoted
\* string, which are bytes of that string's Text token; no other Text token
\* covers a ',' or '=' byte
C28_DelimitersOutsideQuotedStrings ==
  tokPc = "done" =>
    \A k \in DelimiterOffsets(input) :
      \/ \E n \in DOMAIN yielded : yielded[n] = DelimiterToken(input, k)
      \/ LET t == Covering(yielded, k)
         IN QuotedStringToken(input, t) /\ t.Start < k /\ k < t.End - 1

\* ",", then = and a: the comma between the quotes is in the Text token of
\* the quoted string, the '=' after it is an Equals token
C28_Witness ==
  /\ tokPc = "done"
  /\ input = <<"\"", ",", "\"", "=", "a">>
  /\ yielded = <<Token(TokenTypeText, 0, 3, <<",">>),
                 Token(TokenTypeEquals, 3, 4, <<"=">>),
                 Token(TokenTypeText, 4, 5, <<"a">>)>>

\* the types of the tokens Parse has a case for
TokenTypes == {TokenTypeComma, TokenTypeEquals, TokenTypeSpace, TokenTypeText}

\* C30: Tokenize never fails: at every point of the scan the index i is
\* within the input, the open text run starts within it, every slice taken
\* while scanning a quoted string is in range, and every token yielded has
\* type Comma, Equals, Space or Text and a span 0 <= Start < End <= len(s),
\* so that Parse, which only panics on another type, never fails either
C30_NeverFails ==
  /\ 0 <= pos /\ pos <= Len(input)
  /\ textStart = -1 \/ (0 <= textStart /\ textStart <= pos)
  /\ QuoteOpens => QuoteScanInRange(input, pos, pos + 1, FALSE, <<>>, pos + 1)
  /\ \A n \in DOMAIN yielded :
       /\ yielded[n].Type \in TokenTypes
       /\ 0 <= yielded[n].Start
       /\ yielded[n].Start < yielded[n].End
       /\ yielded[n].End <= Len(input)

\* a malformed input went through: an unclosed quote, a stray backslash, a
\* control byte and bare delimiters
C30_Witness ==
  /\ tokPc = "done"
  /\ input = <<"\"", "\\", "DEL", "=", ",">>
  /\ Len(yielded) = 4
  /\ \A n \in DOMAIN yielded : yielded[n].Type \in TokenTypes

\* C31: Tokenize terminates on every input: every iteration of the loop
\* strictly advances the position, also after a run of white space, after a
\* closed quoted string and after a quoted-string scan that found no closing
\* quote, and the scan comes to its end
C31_Terminates ==
  /\ [][tokPc = "scan" => (pos < pos' /\ pos' <= Len(input)) \/ tokPc' = "done"]_vars
  /\ <>(tokPc = "done")

\* the scan of "a a, whose quote has no closing one, came to its end: the
\* quote opened a text run and the scan went on at the byte after it
C31_Witness ==
  /\ tokPc = "done"
  /\ input = <<"\"", "a", " ", "a">>
  /\ pos = 4
  /\ yielded = <<Token(TokenTypeText, 0, 2, <<"\"", "a">>),
                 Token(TokenTypeSpace, 2, 3, <<" ">>),
                 Token(TokenTypeText, 3, 4, <<"a">>)>>

\* ------------------------------------------------------------------------
\* Properties of Parse
\* ------------------------------------------------------------------------

ParseReturned == parsePc = "done"

\* the step-by-step loop yields what the Parse operator computes
ParseRunAgrees == ParseReturned => parseState.out = Parse(parseInput)

Blank(c) == c \in {" ", "\t"}

\* a byte of an unquoted word
WordByte(c) == ~Blank(c) /\ c \notin {",", "=", "\""} /\ ~isControlCharacterOrSpace(c)

Word(w) == \A k \in DOMAIN w : WordByte(w[k])

\* the pieces of s between its commas
RECURSIVE CommaPieces(_, _, _)
CommaPieces(s, k, cur) ==
  IF k > Len(s) THEN <<cur>>
  ELSE IF s[k] = "," THEN <<cur>> \o CommaPieces(s, k + 1, <<>>)
  ELSE CommaPieces(s, k + 1, Append(cur, s[k]))

\* w without the blanks at its ends
RECURSIVE Trim(_)
Trim(w) ==
  IF w = <<>> THEN w
  ELSE IF Blank(Head(w)) THEN Trim(Tail(w))
  ELSE IF Blank(w[Len(w)]) THEN Trim(SubSeq(w, 1, Len(w) - 1))
  ELSE w

\* where w has its first '=', or 0
FirstEquals(w) ==
  IF \E k \in DOMAIN w : w[k] = "="
    THEN CHOOSE k \in DOMAIN w : w[k] = "=" /\ \A j \in 1..(k - 1) : w[j] # "="
    ELSE 0

\* w is `name` or `name=value`
Segment(w) ==
  LET e == FirstEquals(w)
  IN IF e = 0 THEN w # <<>> /\ Word(w)
     ELSE /\ e > 1
          /\ Word(SubSeq(w, 1, e - 1))
          /\ Word(SubSeq(w, e + 1, Len(w)))

\* the directive a segment stands for
SegmentDirective(w) ==
  LET e == FirstEquals(w)
  IN IF e = 0 THEN Directive(w, <<>>, FALSE)
     ELSE Directive(SubSeq(w, 1, e - 1), SubSeq(w, e + 1, Len(w)), TRUE)

TrimmedPieces(s) ==
  LET ps == CommaPieces(s, 1, <<>>) IN [k \in DOMAIN ps |-> Trim(ps[k])]

SegmentList(s) == \A w \in Range(TrimmedPieces(s)) : Segment(w)

\* C11: for a comma-separated list of segments `name` or `name=value` (name a
\* non-empty unquoted word, value a possibly empty unquoted word, optional
\* whitespace around the segments) Parse yields one directive per segment, in
\* input order, with that name and value, HasValue true exactly when the
\* segment contains '='.
C11_OneDirectivePerSegment ==
  (ParseReturned /\ SegmentList(parseInput)) =>
    LET ws == TrimmedPieces(parseInput)
    IN parseState.out = [k \in DOMAIN ws |-> SegmentDirective(ws[k])]

\* " a=,b": an empty value, then a name without value
C11_Witness ==
  /\ ParseReturned
  /\ parseInput = <<" ", "a", "=", ",", "b">>
  /\ parseState.out = <<Directive(<<"a">>, <<>>, TRUE), Directive(<<"b">>, <<>>, FALSE)>>

\* s with f inserted at offset k
InsertAt(s, k, f) == SubSeq(s, 1, k) \o f \o SubSeq(s, k + 1, Len(s))

\* the offsets before the first segment, after the last one and at either side
\* of each comma that separates two segments
SegmentBoundaries(s) ==
  LET commas == {t \in Range(Tokenize(s)) : t.Type = TokenTypeComma}
  IN {0, Len(s)} \cup {t.Start : t \in commas} \cup {t.End : t \in commas}

\* an extra comma, bare or with whitespace around it
ExtraCommas == {<<",">>, <<" ", ",", " ">>}

OnlyCommasAndBlanks(s) == \A k \in DOMAIN s : s[k] = "," \/ Blank(s[k])

\* C12: an extra comma (with optional whitespace) before the first segment,
\* after the last one or between two segments does not change the directives
\* Parse yields; an input of commas and whitespace only yields no directive.
C12_EmptySegmentsSkipped ==
  ParseReturned =>
    /\ \A k \in SegmentBoundaries(parseInput) : \A f \in ExtraCommas :
         Parse(InsertAt(parseInput, k, f)) = parseState.out
    /\ OnlyCommasAndBlanks(parseInput) => parseState.out = <<>>

\* ",a,,b": commas before, between and after nothing
C12_Witness ==
  /\ ParseReturned
  /\ parseInput = <<",", "a", ",", ",", "b">>
  /\ parseState.out = <<Directive(<<"a">>, <<>>, FALSE), Directive(<<"b">>, <<>>, FALSE)>>

\* C13: every directive Parse yields has a non-empty Name or HasValue true, and
\* one with HasValue false has an empty Value.
C13_DirectiveWellFormed ==
  \A d \in Range(parseState.out) :
    /\ d.Name # <<>> \/ d.HasValue
    /\ ~d.HasValue => d.Value = <<>>

\* "=,a": a directive with neither name nor value text, then a bare name
C13_Witness ==
  /\ ParseReturned
  /\ parseInput = <<"=", ",", "a">>
  /\ parseState.out = <<Directive(<<>>, <<>>, TRUE), Directive(<<"a">>, <<>>, FALSE)>>

\* the loop of Parse is about to append a Text token to a pending name, or a
\* Text or Equals token to a pending value, right after a Space token
AppendsAfterSpace ==
  /\ ParseLooping
  /\ parseState.lastToken.Type = TokenTypeSpace
  /\ \/ /\ parseState.state = "stateName"
        /\ parseState.name # <<>>
        /\ ParseNextToken.Type = TokenTypeText
     \/ /\ parseState.state = "stateValue"
        /\ parseState.value # <<>>
        /\ ParseNextToken.Type \in {TokenTypeText, TokenTypeEquals}

\* C32: when Parse appends a token to a pending non-empty name or value and
\* the token before it was a Space run, it inserts exactly one literal space,
\* whatever the length and content of the run
C32_SpaceRunCollapsed ==
  [][AppendsAfterSpace =>
       IF parseState.state = "stateName"
         THEN parseState'.name = parseState.name \o <<" ">> \o ParseNextToken.Text
         ELSE parseState'.value = parseState.value \o <<" ">> \o ParseNextToken.Text]_vars

\* w begins or ends with a space or control byte
BlankAtEnds(w) ==
  w # <<>> /\ (isControlCharacterOrSpace(w[1]) \/ isControlCharacterOrSpace(w[Len(w)]))

\* every space and control byte of s stands outside the quoted strings: no
\* Text token of s has one in its text
BlanksOutsideQuotes(s) ==
  \A t \in Range(Tokenize(s)) :
    t.Type = TokenTypeText => \A k \in DOMAIN t.Text : ~isControlCharacterOrSpace(t.Text[k])

\* C33: whitespace around a directive name or value is dropped: no name and
\* no value that Parse yields begins or ends with a space or control byte
\* that stood outside a quoted string in the input
C33_NoBlankAtEnds ==
  (ParseReturned /\ BlanksOutsideQuotes(parseInput)) =>
    \A d \in Range(parseState.out) : ~BlankAtEnds(d.Name) /\ ~BlankAtEnds(d.Value)

\* the loop is about to receive an Equals token while accumulating a value
EqualsInValue ==
  ParseLooping /\ parseState.state = "stateValue" /\ ParseNextToken.Type = TokenTypeEquals

\* the last n elements of w
Suffix(w, n) == SubSeq(w, Len(w) - n + 1, Len(w))

\* C34: only the first '=' of a segment separates the name from the value:
\* an Equals token received while a value is accumulated is appended to the
\* value and neither yields a directive, nor leaves the value state, nor
\* changes the name; a==b yields name a with value =b, and == yields the
\* empty name with value =
C34_FurtherEqualsIsData ==
  /\ [][EqualsInValue =>
          /\ parseState'.state = "stateValue"
          /\ parseState'.name = parseState.name
          /\ parseState'.out = parseState.out
          /\ Len(parseState'.value) > Len(parseState.value)
          /\ Suffix(parseState'.value, 1) = <<"=">>
          /\ SubSeq(parseState'.value, 1, Len(parseState.value)) = parseState.value]_vars
  /\ [](ParseReturned /\ parseInput = <<"a", "=", "=", "b">> =>
          parseState.out = <<Directive(<<"a">>, <<"=", "b">>, TRUE)>>)
  /\ [](ParseReturned /\ parseInput = <<"=", "=">> =>
          parseState.out = <<Directive(<<>>, <<"=">>, TRUE)>>)

\* a==b was parsed into the one directive a with the value =b
C34_Witness ==
  /\ ParseReturned
  /\ parseInput = <<"a", "=", "=", "b">>
  /\ parseState.out = <<Directive(<<"a">>, <<"=", "b">>, TRUE)>>

\* C35: Parse of directive1=value "with" space,directive2 yields directive1
\* with the value `value "with" space`, the quote characters in the middle of
\* the unquoted value being kept, followed by directive2
C35_DocExampleKeepsQuotes ==
  (ParseReturned /\ parseInput = DocExample) =>
    parseState.out =
      <<Directive(<<"d", "i", "r", "e", "c", "t", "i", "v", "e", "1">>,
                  <<"v", "a", "l", "u", "e", " ", "\"", "w", "i", "t", "h", "\"", " ",
                    "s", "p", "a", "c", "e">>,
                  TRUE),
        Directive(<<"d", "i", "r", "e", "c", "t", "i", "v", "e", "2">>, <<>>, FALSE)>>

\* ------------------------------------------------------------------------
\* Properties of ParseRequestDirectives and ParseResponseDirectives
\* ------------------------------------------------------------------------

ClsReturned == clsPc = "returned"

\* the vocabulary of each variant
RequestVocabulary ==
  {S_max_age, S_max_stale, S_min_fresh, S_no_cache, S_no_store, S_no_transform,
   S_only_if_cached}

ResponseVocabulary ==
  {S_max_age, S_must_revalidate, S_must_understand, S_no_cache, S_no_store,
   S_no_transform, S_private, S_proxy_revalidate, S_public, S_s_maxage}

Vocabulary == IF variant = "request" THEN RequestVocabulary ELSE ResponseVocabulary

\* the numeric directives of the variant, each with its field
NumericFields ==
  IF variant = "request"
    THEN {<<"MaxAge", S_max_age>>, <<"MaxStale", S_max_stale>>, <<"MinFresh", S_min_fresh>>}
    ELSE {<<"MaxAge", S_max_age>>, <<"SMaxAge", S_s_maxage>>}

\* the flags of the variant, each with its directive
FlagFields ==
  IF variant = "request"
    THEN {<<"NoCache", S_no_cache>>, <<"NoStore", S_no_store>>,
          <<"NoTransform", S_no_transform>>, <<"OnlyIfCached", S_only_if_cached>>}
    ELSE {<<"MustRevalidate", S_must_revalidate>>, <<"MustUnderstand", S_must_understand>>,
          <<"NoCache", S_no_cache>>, <<"NoStore", S_no_store>>,
          <<"NoTransform", S_no_transform>>, <<"Private", S_private>>,
          <<"ProxyRevalidate", S_proxy_revalidate>>, <<"Public", S_public>>}

\* where the header has a directive of that name, in any case
Occurrences(name) == {k \in DOMAIN segments : SameName(segments[k].Name, name)}

Last(ks) == CHOOSE k \in ks : \A j \in ks : j <= k

\* a delta-seconds string: one or more digits
DeltaSeconds(v) == v # <<>> /\ \A k \in DOMAIN v : v[k] \in Range(Digits)

ValidOccurrences(name) ==
  {k \in Occurrences(name) : segments[k].HasValue /\ DeltaSeconds(segments[k].Value)}

\* g is a numeric directive of the variant whose value is empty, missing or
\* not made of digits
BadNumeric(g) ==
  /\ \E f \in NumericFields : SameName(g.Name, f[2])
  /\ ~(g.HasValue /\ DeltaSeconds(g.Value))

\* the name is in the vocabulary of the variant, whatever its case
Known(g) == \E n \in Vocabulary : SameName(g.Name, n)

\* C14: each numeric field (request: max-age, max-stale, min-fresh; response:
\* max-age, s-maxage) equals the parsed value of the last occurrence whose
\* value is a valid delta-seconds string, and zero when none is valid.
C14_LastValidNumericWins ==
  ClsReturned =>
    \A f \in NumericFields :
      classified.c[f[1]] =
        IF ValidOccurrences(f[2]) = {} THEN 0
        ELSE ParseAge(segments[Last(ValidOccurrences(f[2]))].Value).dur

\* max-age=1, Max-Age=2, max-age=1x: the later valid value, kept past the bad one
C14_Witness ==
  /\ ClsReturned
  /\ variant = "response"
  /\ segments = <<Valued(S_max_age, <<"1">>), Valued(S_Max_Age, <<"2">>),
                  Valued(S_max_age, <<"1", "x">>)>>
  /\ classified.c.MaxAge = 2 * Second

\* the bad numeric directives of the header, in header order
Bad == SelectSeq(segments, BadNumeric)

\* the name of the numeric directive g as the vocabulary spells it
NumericName(g) == CHOOSE n \in {f[2] : f \in NumericFields} : SameName(g.Name, n)

\* the header without its bad numeric directives
WithoutBad == SelectSeq(segments, LAMBDA g : ~BadNumeric(g))

ClassifyAgain(gs) ==
  IF variant = "request" THEN ParseRequestDirectives(HeaderOf(gs))
                         ELSE ParseResponseDirectives(HeaderOf(gs))

\* C15: the error is non-nil exactly when a numeric directive of the variant
\* has an empty, missing or non-digit value; there is one error per such
\* occurrence, in order, naming the directive; all other directives are
\* applied as if the bad ones were not there.
C15_ErrorsCollectedNotFatal ==
  ClsReturned =>
    /\ classified.errs # <<>> <=> Bad # <<>>
    /\ Len(classified.errs) = Len(Bad)
    /\ \A i \in DOMAIN Bad :
         i \in DOMAIN classified.errs =>
           classified.errs[i].directive = NumericName(Bad[i])
    /\ Bad # <<>> => classified.c = ClassifyAgain(WithoutBad).c

\* no-cache=a, max-age=1x, No-Store: one error, both flags set
C15_Witness ==
  /\ ClsReturned
  /\ variant = "request"
  /\ segments = <<Valued(S_no_cache, <<"a">>), Valued(S_max_age, <<"1", "x">>),
                  Bare(S_No_Store)>>
  /\ classified.c.NoCache
  /\ classified.c.NoStore
  /\ classified.errs = <<DirectiveError(S_max_age, errInvalidDeltaSeconds)>>

\* the directive g was recorded as an extension
InExtensions(g) ==
  \E e \in Range(classified.c.Extensions) :
    e.Name = g.Name /\ e.Value = g.Value /\ e.HasValue = g.HasValue

\* some error was reported for the directive of that name
ErrorNames(name) == \E e \in Range(classified.errs) : e.directive = name

\* C16: a directive is known exactly when its name, case-insensitively, is in
\* the vocabulary of the variant; a name of the other variant's vocabulary
\* only sets no known field and is recorded as an extension.
C16_VocabularyPerVariant ==
  ClsReturned =>
    /\ \A k \in DOMAIN segments : Known(segments[k]) <=> ~InExtensions(segments[k])
    /\ \A f \in FlagFields : classified.c[f[1]] <=> Occurrences(f[2]) # {}
    /\ \A f \in NumericFields :
         /\ Occurrences(f[2]) = {} => classified.c[f[1]] = 0
         /\ Occurrences(f[2]) # {} => classified.c[f[1]] # 0 \/ ErrorNames(f[2])

\* a request with public, s-maxage=1 and Max-Age=2
C16_Witness ==
  /\ ClsReturned
  /\ variant = "request"
  /\ segments = <<Bare(S_public), Valued(S_s_maxage, <<"1">>), Valued(S_Max_Age, <<"2">>)>>
  /\ Len(classified.c.Extensions) = 2
  /\ classified.c.MaxAge = 2 * Second

\* the directives of the header outside the vocabulary, in header order
Unknown == SelectSeq(segments, LAMBDA g : ~Known(g))

\* C17: Extensions has one entry per occurrence of a directive outside the
\* vocabulary, in header order, duplicates kept, each with the occurrence's
\* value and HasValue; known directives never appear in it.
C17_ExtensionsInOrder ==
  ClsReturned =>
    /\ Len(classified.c.Extensions) = Len(Unknown)
    /\ \A i \in DOMAIN Unknown :
         i \in DOMAIN classified.c.Extensions =>
           /\ SameName(classified.c.Extensions[i].Name, Unknown[i].Name)
           /\ classified.c.Extensions[i].Value = Unknown[i].Value
           /\ classified.c.Extensions[i].HasValue = Unknown[i].HasValue
    /\ \A e \in Range(classified.c.Extensions) : ~Known(e)

\* Foo=1, public, Foo=1: the duplicate is kept
C17_Witness ==
  /\ ClsReturned
  /\ variant = "response"
  /\ segments = <<Valued(S_Foo, <<"1">>), Bare(S_public), Valued(S_Foo, <<"1">>)>>
  /\ Len(classified.c.Extensions) = 2
  /\ classified.c.Public

\* C18: the Name of every entry of Extensions contains no upper-case letter,
\* whatever the case the header writes it in.
C18_ExtensionNamesLowerCased ==
  ClsReturned =>
    \A e \in Range(classified.c.Extensions) :
      \A k \in DOMAIN e.Name : e.Name[k] \notin Range(Upper)

\* the list directives of a response: flag, list and name
ListFields ==
  {<<"NoCache", "NoCacheHeaders", S_no_cache>>, <<"Private", "PrivateHeaders", S_private>>}

\* C19: for no-cache and private of a response the header-name list is the
\* whitespace-split value of the last occurrence when it carried a value and
\* absent when it carried none; the flag is true in both cases.
C19_LastListWins ==
  (ClsReturned /\ variant = "response") =>
    \A f \in ListFields :
      Occurrences(f[3]) # {} =>
        LET last == segments[Last(Occurrences(f[3]))]
        IN /\ classified.c[f[1]]
           /\ classified.c[f[2]] =
                IF last.HasValue THEN SliceOf(Fields(last.Value)) ELSE NilSlice

\* private="a b", no-cache=a, private: the later bare private clears the list
C19_Witness ==
  /\ ClsReturned
  /\ variant = "response"
  /\ segments = <<Seg(S_private, TRUE, <<"a", " ", "b">>, TRUE),
                  Valued(S_no_cache, <<"a">>), Bare(S_private)>>
  /\ classified.c.Private
  /\ classified.c.PrivateHeaders = NilSlice
  /\ classified.c.NoCacheHeaders = SliceOf(<< <<"a">> >>)

\* C20: each flag is true if and only if the header has an occurrence of its
\* directive, in any case and with or without a value; a value on a flag
\* directive causes no error; no later directive resets a flag.
C20_FlagsSetByAnyOccurrence ==
  ClsReturned =>
    /\ \A f \in FlagFields : classified.c[f[1]] = (Occurrences(f[2]) # {})
    /\ \A f \in FlagFields : ~ErrorNames(f[2])

\* No-Store, no-cache=a, No-Store in a request: both flags, no error
C20_Witness ==
  /\ ClsReturned
  /\ variant = "request"
  /\ segments = <<Bare(S_No_Store), Valued(S_no_cache, <<"a">>), Bare(S_No_Store)>>
  /\ classified.c.NoStore
  /\ classified.c.NoCache
  /\ classified.errs = <<>>

\* the directives with the header-name lists taken by their elements
ByElements(c) ==
  IF "PrivateHeaders" \in DOMAIN c
    THEN [c EXCEPT !.PrivateHeaders = @.elems, !.NoCacheHeaders = @.elems]
    ELSE c

\* the directives obtained by classifying their own String() rendering
Reclassified ==
  IF variant = "request"
    THEN ParseRequestDirectives(RequestDirectivesString(classified.c)).c
    ELSE ParseResponseDirectives(ResponseDirectivesString(classified.c)).c

\* C39: classifying the String() rendering of the directives obtained from a
\* header yields the same directives again: the same flags, durations and
\* header lists and the same Extensions in the same order, for requests and
\* responses, also for extensions whose value holds a double quote, a
\* backslash or a comma
C39_StringRoundTrip ==
  clsPc = "returned" => ByElements(Reclassified) = ByElements(classified.c)

\* ------------------------------------------------------------------------
\* Properties of ParseAge
\* ------------------------------------------------------------------------

AgeReturned == agePc = "returned"

\* a non-empty string of ASCII digits
DigitString(s) == s # <<>> /\ \A k \in DOMAIN s : s[k] \in Range(Digits)

RECURSIVE DecimalValue(_)
\* the number a digit string denotes, without any width
DecimalValue(s) ==
  IF s = <<>> THEN 0
  ELSE 10 * DecimalValue(SubSeq(s, 1, Len(s) - 1)) + (Byte(s[Len(s)]) - Byte("0"))

\* the largest whole number of seconds a duration holds
MaxSeconds == MaxInt \div Second

\* C21: for every non-empty string of digits ParseAge returns no error, the
\* value in seconds when the value is at most the largest whole number of
\* seconds a duration holds, and the maximum duration otherwise, also for
\* values beyond the width of the accumulator
C21_ParseAgeSaturates ==
  (AgeReturned /\ DigitString(ageInput)) =>
    /\ ageResult.err = NoError
    /\ ageResult.dur =
         IF DecimalValue(ageInput) <= MaxSeconds
           THEN DecimalValue(ageInput) * Second
           ELSE MaxInt

\* C40: on a non-empty string of digits parseDeltaSeconds returns the exact
\* value when it fits the unsigned accumulator and the maximum unsigned value
\* for every string whose value exceeds it: a wrapped-around accumulator is
\* never returned
C40_DeltaSecondsSaturates ==
  (AgeReturned /\ DigitString(ageInput)) =>
    deltaSeconds =
      [d |-> IF DecimalValue(ageInput) <= MaxUint THEN DecimalValue(ageInput)
             ELSE MaxUint,
       err |-> NoError]

\* a digit string beyond the width of the accumulator was given and the
\* maximum duration came back
C21_Witness ==
  /\ AgeReturned
  /\ DigitString(ageInput)
  /\ DecimalValue(ageInput) > MaxUint
  /\ ageResult = [dur |-> MaxInt, err |-> NoError]

\* ------------------------------------------------------------------------
\* Properties of RemoveUnstorableHeaders
\* ------------------------------------------------------------------------

RmReturned == rmPc = "returned"

\* a header of the map has this name, in whatever letter case
HasHeader(hs, name) == \E k \in DOMAIN hs : ToLower(k) = ToLower(name)

\* the names a comma-separated list of names gives
ListedNames(value) == {n \in Range(TrimmedPieces(value)) : n # <<>>}

\* the header fields a Connection header names: one name per value, or
\* several names separated by commas in one value
ConnectionNames(hs) ==
  LET values == HeaderValues(hs, H_Connection)
  IN UNION {ListedNames(values[k]) : k \in DOMAIN values}

\* C22: after RemoveUnstorableHeaders the header map has neither the
\* Connection header nor any header the Connection header named before the
\* call, whether the names come one per value or comma-separated in one
\* value, and in any letter case
C22_ConnectionNamedRemoved ==
  RmReturned =>
    /\ H_Connection \notin DOMAIN headers
    /\ \A n \in ConnectionNames(rmOriginal) : ~HasHeader(headers, n)

\* the response's directives, as Response.Directives gives them for the
\* header map
DirectivesOf(hs) ==
  ParseResponseDirectives(Join(HeaderValues(hs, H_Cache_Control), <<",", " ">>)).c

\* the header names in the value of the private directive
PrivateNames(hs) == Range(DirectivesOf(hs).PrivateHeaders.elems)

\* the header names in the value of the no-cache directive
NoCacheNames(hs) == Range(DirectivesOf(hs).NoCacheHeaders.elems)

\* the three proxy headers
ProxyNames == {H_Proxy_Authenticate, H_Proxy_Authentication_Info, H_Proxy_Authorization}

\* one of the names has this key, in whatever letter case
Names(ns, key) == \E n \in ns : ToLower(n) = ToLower(key)

\* the names in a Connection header, its values split at commas and at
\* white space alike
LooseConnectionNames(hs) ==
  UNION {FieldsOfValues(<<n>>) : n \in ConnectionNames(hs)}

\* the key is Connection, is named by it, or is a proxy header that the
\* configuration does not store
RemovedOtherwise(c, hs, key) ==
  \/ key = H_Connection
  \/ Names(LooseConnectionNames(hs), key)
  \/ ~c.StoreProxyHeaders /\ key \in ProxyNames

\* C23: the headers named in the value of the response's private directive
\* are removed exactly when RespectPrivateHeaders is set; when it is unset
\* they are kept, and a header named only by no-cache is never removed on
\* that account
C23_PrivateNamedRemovedWhenRespected ==
  RmReturned =>
    /\ rmConfig.RespectPrivateHeaders =>
         \A n \in PrivateNames(rmOriginal) : ~HasHeader(headers, n)
    /\ \A key \in DOMAIN rmOriginal :
         (/\ ~RemovedOtherwise(rmConfig, rmOriginal, key)
          /\ ~(rmConfig.RespectPrivateHeaders /\ Names(PrivateNames(rmOriginal), key)))
           => key \in DOMAIN headers

\* the key is named by the Connection header or by a private directive that
\* the configuration respects
NamedForRemoval(c, hs, key) ==
  \/ Names(LooseConnectionNames(hs), key)
  \/ c.RespectPrivateHeaders /\ Names(PrivateNames(hs), key)

\* C24: without StoreProxyHeaders the three proxy headers are removed; with
\* it each of them is kept, with its values, unless the Connection header
\* or a respected private directive names it
C24_ProxyHeaders ==
  RmReturned =>
    IF ~rmConfig.StoreProxyHeaders
      THEN DOMAIN headers \cap ProxyNames = {}
      ELSE \A key \in ProxyNames \cap DOMAIN rmOriginal :
             ~NamedForRemoval(rmConfig, rmOriginal, key) =>
               key \in DOMAIN headers /\ headers[key] = rmOriginal[key]

\* a response with the proxy headers went through a configuration that
\* stores them: the one the Connection header named is gone, the others stay
C24_Witness ==
  /\ RmReturned
  /\ rmConfig.StoreProxyHeaders
  /\ ProxyNames \subseteq DOMAIN rmOriginal
  /\ DOMAIN headers \cap ProxyNames = {H_Proxy_Authenticate, H_Proxy_Authentication_Info}

C37_StoredWithoutPrivateHeaders ==
  (RmReturned /\ result /\ ~rmConfig.Private /\ rmConfig.RespectPrivateHeaders) =>
    \A n \in PrivateNames(rmOriginal) : ~HasHeader(headers, n)

\* ------------------------------------------------------------------------
\* Properties of CanStore as it runs
\* ------------------------------------------------------------------------

CallReturned(i) == calls[i].pc = "returned"

\* C25: CanStore reads and writes no shared mutable state: calls that run
\* concurrently, with each other or with any other activity of the program
\* that uses the package, each return the value the same call returns when
\* run alone, a function of the config, request and response only, and leave
\* all three as they were
C25_NoSharedMutableState ==
  \A i \in Calls :
    CallReturned(i) =>
      calls[i].result = CanStore(calls[i].cfg, calls[i].req, calls[i].resp)

\* the order the hooks are invoked in, the request directives last
HookOrder ==
  <<"SupportedRequestMethod", "CanUnderstandResponseCode", "CacheableByExtension",
    "IsHeuristicallyCacheableStatusCode", "req.Directives">>

HookPlace(e) == CHOOSE k \in DOMAIN HookOrder : HookOrder[k] = e

\* the events of the trace are in the order of HookOrder, each at most once
InHookOrder(tr) ==
  \A j, k \in DOMAIN tr : j < k => HookPlace(tr[j]) < HookPlace(tr[k])

\* the first six preconditions hold
PreconditionsPass(c, rq, rs) ==
  LET d == ResponseDirectives(rs).c
  IN /\ supportedRequestMethod(c, rq.Method)
     /\ rs.StatusCode >= 200
     /\ MustUnderstandStatusCode(rs, d) => canUnderstandResponseCode(c, rs.StatusCode)
     /\ ~d.NoStore
     /\ ~PrivateForbidsSharedStorage(c, d)
     /\ ~AuthorizationForbidsSharedStorage(c, rq, d)

\* the response has an Expires header that parses as a date
ParsedExpires(rs) == Len(rs.Header["Expires"]) > 0 /\ ~Expires(rs).err

\* a freshness signal that comes before the hooks is present
EarlierSignal(c, rs) ==
  LET d == ResponseDirectives(rs).c
  IN \/ d.Public
     \/ c.Private /\ d.Private
     \/ ParsedExpires(rs)
     \/ d.MaxAge > 0
     \/ ~c.Private /\ d.SMaxAge > 0

\* C26: within one call the hooks are invoked only in the order
\* SupportedRequestMethod, CanUnderstandResponseCode, CacheableByExtension,
\* IsHeuristicallyCacheableStatusCode, each at most once, and only if every
\* earlier precondition passed and no earlier freshness signal (public,
\* private in private mode, a parsed Expires, max-age > 0, s-maxage > 0 when
\* shared) is present; IsHeuristicallyCacheableStatusCode is not invoked when
\* CacheableByExtension returned true, and the request's Cache-Control is
\* examined only after all of these
C26_HooksInvokedInOrder ==
  \A i \in Calls :
    LET call == calls[i]
        In(e) == \E k \in DOMAIN call.trace : call.trace[k] = e
    IN call.trace # <<>> =>
         /\ InHookOrder(call.trace)
         /\ In("CanUnderstandResponseCode") =>
              supportedRequestMethod(call.cfg, call.req.Method) /\ call.resp.StatusCode >= 200
         /\ In("CacheableByExtension") =>
              PreconditionsPass(call.cfg, call.req, call.resp)
                /\ ~EarlierSignal(call.cfg, call.resp)
         /\ In("IsHeuristicallyCacheableStatusCode") =>
              /\ PreconditionsPass(call.cfg, call.req, call.resp)
              /\ ~EarlierSignal(call.cfg, call.resp)
              /\ ~cacheableByExtension(call.cfg, call.req, call.resp)
         /\ In("req.Directives") => PreconditionsPass(call.cfg, call.req, call.resp)

\* ------------------------------------------------------------------------
\* Properties of Tokenize and Parse under a consumer that stops
\* ------------------------------------------------------------------------

\* a is the sequence of the first Len(a) elements of b
Prefix(a, b) == Len(a) <= Len(b) /\ a = SubSeq(b, 1, Len(a))

\* what a consumer that stops at element number k has seen of all
Observed(k, all, seen, pc) ==
  /\ Prefix(seen, all)
  /\ Len(seen) <= k
  /\ pc = "stopped" => Len(all) >= k /\ seen = SubSeq(all, 1, k)
  /\ pc = "done" => seen = all

\* C29: Tokenize and Parse are lazy and short-circuitable: once the yield
\* callback has returned false the producer yields nothing more and returns,
\* and a consumer that stops after k elements has seen exactly the first k
\* elements that full consumption of the same input yields
C29_ConsumerStops ==
  /\ tokPc # "idle" => Observed(stopAfter, Tokenize(input), yielded, tokPc)
  /\ parsePc # "idle" =>
       Observed(stopAfter, Parse(parseInput), parseState.out, parsePc)

\* the consumer stopped at the first token of a,a: the step at the comma
\* flushed the text run, and the Comma token of the same step was not yielded
C29_Witness ==
  /\ tokPc = "stopped"
  /\ stopAfter = 1
  /\ input = <<"a", ",", "a">>
  /\ yielded = <<Token(TokenTypeText, 0, 1, <<"a">>)>>

====
